---- MODULE Spec2Model ----
(***************************************************************************)
(* Model of the irrigation intelligence engine of the server               *)
(* (server/services/intelligence.js) and of the handlers that call it.     *)
(*                                                                         *)
(* Numbers are fixed point integers:                                       *)
(*   moisture and moisture thresholds   tenths of a percent                *)
(*   daily ET, water amounts            thousandths (mm/day, L/m2)         *)
(*   hours returned by calculateNextIrrigationTime   hundredths, rounded   *)
(*     up (every use of the value applies Math.ceil, and                   *)
(*     ceil(ceil(100 x) / 100) = ceil(x))                                  *)
(* A JavaScript value that may be a number, NaN, undefined or null is a    *)
(* record [t, v]; arithmetic on it follows the ECMAScript rules.           *)
(***************************************************************************)
EXTENDS Integers, Sequences, FiniteSets, TLC

VARIABLES
    \* one request to the engine: its arguments, its results, its position
    currentData, crop, history, hour, recommendation, anomalies, pc,
    \* further results of the engine
    waterSavings, yieldHealth,
    \* the readings collection and the state of the database connection
    store, dbConnected,
    \* ESP32Service (enabled, lastState), the device behind it, the calls of
    \* the service in progress and the number of HTTP requests it has sent
    enabled, lastState, deviceState, calls, requestsSent,
    \* the alert list given to determineStateFromAlerts and the state it returns
    alerts, ledState,
    \* TelegramService: the time in seconds, whether the service is configured
    \* and enabled, sentAlerts, lastMessageTime of the chat, and its calls
    clock, tgEnabled, sentAlerts, lastMessageTime, tgCalls,
    \* DataSynthesisService: isRunning, interval, the interval timers that
    \* exist, the start calls, the last method called, the latest record
    \* and the crop given to the last generateSyntheticData
    isRunning, interval, timers, startCalls, lastOp, synthLatest, synthCrop,
    \* MLPredictionService: the arguments of a call and what it has computed
    mlArgs, mlResult

engineVars == <<currentData, crop, history, hour, recommendation, anomalies, pc,
                waterSavings, yieldHealth>>
storeVars == <<store, dbConnected>>
espVars == <<enabled, lastState, deviceState, calls, requestsSent>>

alertVars == <<alerts, ledState>>
telegramVars == <<clock, tgEnabled, sentAlerts, lastMessageTime, tgCalls>>
synthVars == <<isRunning, interval, timers, startCalls, lastOp, synthLatest, synthCrop>>
mlVars == <<mlArgs, mlResult>>
serviceVars == <<alertVars, telegramVars, synthVars, mlVars>>

vars == <<engineVars, storeVars, espVars, serviceVars>>

----------------------------------------------------------------------------
(* JavaScript values *)

Num(n) == [t |-> "num", v |-> n]
NaN == [t |-> "NaN", v |-> 0]
Undefined == [t |-> "undefined", v |-> 0]
Null == [t |-> "null", v |-> 0]

IsNum(x) == x.t = "num"

\* ToNumber: undefined -> NaN, null -> +0
ToNumber(x) == IF x.t = "null" THEN Num(0) ELSE IF x.t = "num" THEN x ELSE NaN

\* ToBoolean of a number-like value: 0, NaN, undefined and null are falsy
Truthy(x) == x.t = "num" /\ x.v # 0

\* x < y and x > y on values already scaled alike; false when an operand is NaN
Lt(x, y) == IsNum(ToNumber(x)) /\ IsNum(ToNumber(y)) /\ ToNumber(x).v < ToNumber(y).v
Gt(x, y) == Lt(y, x)

MathMax(x, y) == IF IsNum(x) /\ IsNum(y) THEN Num(IF x.v > y.v THEN x.v ELSE y.v) ELSE NaN
MathMin(x, y) == IF IsNum(x) /\ IsNum(y) THEN Num(IF x.v < y.v THEN x.v ELSE y.v) ELSE NaN

\* Math.round(x * 10) / 10 on thousandths: nearest tenth, halves up
RoundTenth(x) == IF IsNum(x) THEN Num(((x.v + 50) \div 100) * 100) ELSE NaN

\* Math.ceil(x / q) for a positive integer q
CeilDiv(x, q) == IF IsNum(x) THEN Num((x.v + q - 1) \div q) ELSE NaN

----------------------------------------------------------------------------
(* Crop profile table *)

cropConfig ==
    [Rice      |-> [min |-> 40, max |-> 70, waterPerIrrigation |-> 50, rootDepth |-> 20],
     Wheat     |-> [min |-> 30, max |-> 50, waterPerIrrigation |-> 35, rootDepth |-> 30],
     Maize     |-> [min |-> 35, max |-> 60, waterPerIrrigation |-> 40, rootDepth |-> 40],
     Tomato    |-> [min |-> 35, max |-> 60, waterPerIrrigation |-> 30, rootDepth |-> 30],
     Cotton    |-> [min |-> 40, max |-> 65, waterPerIrrigation |-> 45, rootDepth |-> 50],
     Sugarcane |-> [min |-> 45, max |-> 70, waterPerIrrigation |-> 55, rootDepth |-> 60],
     Tobacco   |-> [min |-> 30, max |-> 55, waterPerIrrigation |-> 32, rootDepth |-> 35],
     Default   |-> [min |-> 30, max |-> 60, waterPerIrrigation |-> 40, rootDepth |-> 30]]

CropNames == DOMAIN cropConfig

\* currentData.cropType || crop?.name || 'Default'   ("" is the absent name)
ResolveCropType(data, c) ==
    IF data.cropType # "" THEN data.cropType
    ELSE IF c.present /\ c.name # "" THEN c.name
    ELSE "Default"

\* this.cropConfig[cropType] || this.cropConfig['Default']
ConfigOf(cropType) ==
    IF cropType \in CropNames THEN cropConfig[cropType] ELSE cropConfig["Default"]

----------------------------------------------------------------------------
(* Evapotranspiration *)

\* 0.611 * exp(17.27 * T / (237.3 + T)) in Pa, tabulated for the
\* temperatures the model draws
SatVapourPressure == [T \in {15, 25, 28, 35} |->
    CASE T = 15 -> 1706 [] T = 25 -> 3169 [] T = 28 -> 3781 [] T = 35 -> 5625]

\* daily ET in thousandths of mm/day; NaN as soon as one weather field is
\* not a number (the destructured fields are used without defaults)
calculateET(weather, cropType) ==
    IF ~(IsNum(weather.temperature) /\ IsNum(weather.humidity)
         /\ IsNum(weather.windSpeed) /\ IsNum(weather.solarRadiation))
    THEN NaN
    ELSE LET T == weather.temperature.v
             \* vapour pressure deficit in units of 10 Pa
             vpd == ((100 - weather.humidity.v) * SatVapourPressure[T]) \div 1000
             \* 0.408 * solarRadiation + 0.063 * windSpeed, in tenths
             rad == (408 * weather.solarRadiation.v + 63 * weather.windSpeed.v) \div 100
             \* et0 * cropCoefficient(0.8) * 24
             etc24 == (rad * vpd * 192) \div (10 * T + 2373)
         IN  MathMax(Num(0), Num(etc24))

----------------------------------------------------------------------------
(* Readings *)

EmptyForecast == [present |-> FALSE, nextRainHours |-> Undefined]

\* the object {} that stands in for an absent weather block
EmptyWeather ==
    [present |-> FALSE, temperature |-> Undefined, humidity |-> Undefined,
     windSpeed |-> Undefined, solarRadiation |-> Undefined,
     chanceOfRain |-> Undefined, forecast |-> EmptyForecast]

\* currentData.weather || {}
WeatherOrEmpty(data) == IF data.weather.present THEN data.weather ELSE EmptyWeather

----------------------------------------------------------------------------
(* Recommendation generator *)

\* the recommendation object; a property the returned literal does not have
\* reads as undefined
NoField == "undefined"

Pending ==
    [action |-> "Pending", reason |-> "Collecting initial data...",
     amount |-> Undefined, duration |-> Undefined, recommendedTime |-> NoField,
     hoursUntilNext |-> Undefined, priority |-> NoField, et |-> Undefined]

\* moisture.toFixed(1) on a moisture that is null: the call rejects
Rejected ==
    [action |-> "TypeError", reason |-> NoField,
     amount |-> Undefined, duration |-> Undefined, recommendedTime |-> NoField,
     hoursUntilNext |-> Undefined, priority |-> NoField, et |-> Undefined]

getOptimalIrrigationTime(weather, h) ==
    IF h >= 5 /\ h < 7 THEN "06:00 AM"
    ELSE IF h >= 18 /\ h < 20 THEN "07:00 PM"
    ELSE "06:00 AM (Tomorrow)"

\* variant: the upper clamp at 72 hours
calculateNextIrrigationTime_Cap72(currentMoisture, targetMoisture, dailyET) ==
    LET cur == ToNumber(currentMoisture)
        deficit == 10 * targetMoisture - cur.v
    IN  IF ~IsNum(cur) THEN NaN
        ELSE IF deficit <= 0 THEN Num(2400)
        ELSE IF ~IsNum(dailyET) THEN NaN
        ELSE IF deficit * 24000 >= 72 * dailyET.v THEN Num(7200)
        ELSE MathMax(Num(100),
                     Num((deficit * 24000 * 100 + dailyET.v - 1) \div dailyET.v))

\* hours until the next irrigation, in hundredths rounded up; targetMoisture
\* in percent, currentMoisture in tenths, dailyET in thousandths
calculateNextIrrigationTime(currentMoisture, targetMoisture, dailyET) ==
    LET cur == ToNumber(currentMoisture)
        deficit == 10 * targetMoisture - cur.v
    IN  IF ~IsNum(cur) THEN NaN
        ELSE IF deficit <= 0 THEN Num(2400)
        ELSE IF ~IsNum(dailyET) THEN NaN
        \* deficit / (dailyET / 240) = deficit * 24000 / dailyET in these
        \* units; a zero ET divides to Infinity, which Math.min cuts to 48
        ELSE IF deficit * 24000 >= 48 * dailyET.v THEN Num(4800)
        ELSE MathMax(Num(100),
                     Num((deficit * 24000 * 100 + dailyET.v - 1) \div dailyET.v))

\* variant: the Critical band taken below half of min
getPriority_HalfMin(action, moisture, min, max) ==
    IF action = "Irrigate"
    THEN IF Lt(moisture, Num(5 * min)) THEN "Critical"
         ELSE IF Lt(moisture, Num(10 * min)) THEN "High"
         ELSE "Medium"
    ELSE IF action = "Stop" THEN "High"
    ELSE "Low"

getPriority(action, moisture, min, max) ==
    IF action = "Irrigate"
    THEN IF Lt(moisture, Num(7 * min)) THEN "Critical"
         ELSE IF Lt(moisture, Num(10 * min)) THEN "High"
         ELSE "Medium"
    ELSE IF action = "Stop" THEN "High"
    ELSE "Low"

\* moisture < min
isBelowThreshold(moisture, min) == Lt(moisture, Num(10 * min))

\* variant: a 20% buffer
isAboveThreshold_Buffer20(moisture, max) == Gt(moisture, Num(12 * max))

\* moisture > max * 1.1 (10% buffer for over-irrigation)
isAboveThreshold(moisture, max) == Gt(moisture, Num(11 * max))

\* variant: Monitor up to max
inLowerHalf_UpToMax(moisture, min, max) == Lt(moisture, Num(10 * max))

\* moisture < (min + max) / 2
inLowerHalf(moisture, min, max) == Lt(moisture, Num(5 * (min + max)))

\* rainInNextHours && rainInNextHours < 6 && rainChance > 50
rainDelay(rainInNextHours, rainChance) ==
    Truthy(rainInNextHours) /\ rainInNextHours.v < 6 /\ rainChance.v > 50

\* Math.max(w * 0.5, Math.min(w * 1.5, deficitVolume + etCompensation)),
\* in thousandths; moistureDeficit in tenths
irrigationAmount(moistureDeficit, config, dailyET) ==
    LET \* (moistureDeficit / 100) * rootDepth * 10
        deficitVolume ==
            IF IsNum(moistureDeficit) THEN Num(moistureDeficit.v * config.rootDepth * 10) ELSE NaN
        \* dailyET * 0.5
        etCompensation == IF IsNum(dailyET) THEN Num(dailyET.v \div 2) ELSE NaN
        sum == IF IsNum(deficitVolume) /\ IsNum(etCompensation)
               THEN Num(deficitVolume.v + etCompensation.v) ELSE NaN
    IN  MathMax(Num(config.waterPerIrrigation * 500),
                MathMin(Num(config.waterPerIrrigation * 1500), sum))

\* the object returned by the over-irrigation branch
StopRecommendation ==
    [action |-> "Stop", reason |-> "Moisture exceeds safe range. Risk of waterlogging.",
     amount |-> Num(0), duration |-> Num(0), recommendedTime |-> "N/A",
     hoursUntilNext |-> Num(24), priority |-> NoField, et |-> Undefined]

generateRecommendation(data, c, historicalData, h) ==
    IF ~data.present \/ ~data.soil.present THEN Pending
    ELSE
    LET moisture == data.soil.moisture
        weather == WeatherOrEmpty(data)
        cropType == ResolveCropType(data, c)
        config == ConfigOf(cropType)
        min == config.min
        max == config.max
        dailyET == calculateET(weather, cropType)
        \* max - moisture, in tenths
        moistureDeficit ==
            IF IsNum(ToNumber(moisture)) THEN Num(10 * max - ToNumber(moisture).v) ELSE NaN
        recommendedTime == getOptimalIrrigationTime(weather, h)
        \* forecast?.nextRainHours
        rainInNextHours ==
            IF weather.forecast.present THEN weather.forecast.nextRainHours ELSE Undefined
        \* weather.chanceOfRain || 0
        rainChance == IF Truthy(weather.chanceOfRain) THEN weather.chanceOfRain ELSE Num(0)
        action ==
            IF isBelowThreshold(moisture, min)
            THEN (IF rainDelay(rainInNextHours, rainChance) THEN "Delay" ELSE "Irrigate")
            ELSE IF inLowerHalf(moisture, min, max) THEN "Monitor"
            ELSE "Maintain"
        amount ==
            IF action = "Irrigate" THEN irrigationAmount(moistureDeficit, config, dailyET)
            ELSE Num(0)
        \* Math.ceil(amount / 1.5)
        duration == IF action = "Irrigate" THEN CeilDiv(amount, 1500) ELSE Num(0)
        hoursUntilNext ==
            CASE action = "Delay" -> Num(100 * (rainInNextHours.v + 2))
              [] action \in {"Irrigate", "Monitor"} ->
                     calculateNextIrrigationTime(moisture, max, dailyET)
              [] OTHER -> Null
        reason ==
            CASE action = "Delay" -> "Rain expected. Delaying irrigation."
              [] action = "Irrigate" -> "Moisture below threshold."
              [] action = "Monitor" -> "Moisture in lower optimal range."
              [] OTHER -> "Moisture levels are optimal."
    IN  IF isAboveThreshold(moisture, max) THEN StopRecommendation
        \* the Irrigate reason formats moisture.toFixed(1)
        ELSE IF action = "Irrigate" /\ ~IsNum(moisture) THEN Rejected
        ELSE [action |-> action,
              reason |-> reason,
              amount |-> RoundTenth(amount),
              duration |-> duration,
              recommendedTime |-> recommendedTime,
              \* hoursUntilNext ? Math.ceil(hoursUntilNext) : null
              hoursUntilNext |-> IF Truthy(hoursUntilNext) THEN CeilDiv(hoursUntilNext, 100) ELSE Null,
              priority |-> getPriority(action, moisture, min, max),
              et |-> RoundTenth(dailyET)]

----------------------------------------------------------------------------
(* Anomaly detector *)

\* the crops whose max * 1.15 rounds below the exact product in binary
\* floating point (50 * 1.15 = 57.49999999999999, 55 * 1.15 = 63.24999999999999)
MaxTimes115RoundsDown == {50, 55}

\* moisture > max * 1.15
AboveMaxTimes115(moisture, max) ==
    /\ IsNum(ToNumber(moisture))
    /\ IF max \in MaxTimes115RoundsDown
       THEN 2 * ToNumber(moisture).v >= 23 * max
       ELSE 2 * ToNumber(moisture).v > 23 * max

\* r.soil?.moisture
SoilMoisture(r) == IF r.soil.present THEN r.soil.moisture ELSE Undefined

\* history.slice(-10)
LastTen(records) ==
    IF Len(records) <= 10 THEN records
    ELSE SubSeq(records, Len(records) - 9, Len(records))

RECURSIVE SumSeq(_)
SumSeq(q) == IF q = << >> THEN 0 ELSE Head(q) + SumSeq(Tail(q))

Abs(x) == IF x < 0 THEN -x ELSE x

\* confidences are in hundredths of a percent
Anomaly(type, severity, confidence, latest) ==
    [type |-> type, severity |-> severity, confidence |-> confidence,
     field |-> "Field 1", timestamp |-> latest.timestamp, status |-> "Active"]

\* moisture.toFixed(1) in an anomaly message, on a moisture that is null
RejectedAnomalies ==
    << [type |-> "TypeError", severity |-> NoField, confidence |-> 0,
        field |-> NoField, timestamp |-> 0, status |-> NoField] >>

\* variant: three records are enough
insufficientHistory_Three(hist) == ~hist.present \/ Len(hist.records) < 3

\* !history || history.length < 5
insufficientHistory(hist) == ~hist.present \/ Len(hist.records) < 5

\* 1. sudden moisture drop not explained by weather
leakDetection(records, latest, moisture, cropType) ==
    LET previous == records[Len(records) - 1]
        prevMoisture == ToNumber(SoilMoisture(previous))
        cur == ToNumber(moisture)
        \* moisture - previous.soil?.moisture, in tenths
        rateOfChange == IF IsNum(cur) /\ IsNum(prevMoisture)
                        THEN Num(cur.v - prevMoisture.v) ELSE NaN
        \* latest.timestamp - previous.timestamp, in minutes
        timeDiff == latest.timestamp - previous.timestamp
        dailyET == calculateET(WeatherOrEmpty(latest), cropType)
    IN  IF /\ Len(records) >= 2
           /\ IsNum(rateOfChange) /\ rateOfChange.v < -80
           /\ timeDiff < 120
           \* |rateOfChange| > 2 * |ET * (timeDiff / 24) / 10|
           /\ IsNum(dailyET)
           /\ Abs(rateOfChange.v) * 1440000 > 2 * dailyET.v * Abs(timeDiff)
        THEN << Anomaly("Leak", "High",
                        IF 7000 + 20 * Abs(rateOfChange.v) > 9500 THEN 9500
                        ELSE 7000 + 20 * Abs(rateOfChange.v), latest) >>
        ELSE << >>

\* variant: three dry records are enough
dryStressTriggered_Three(recent, moisture, min) ==
    LET lowMoistureCount == Cardinality({i \in DOMAIN recent : Lt(SoilMoisture(recent[i]), Num(10 * min))})
    IN  Lt(moisture, Num(8 * min)) /\ lowMoistureCount >= 3

\* moisture < min * 0.8 && lowMoistureCount >= 5
dryStressTriggered(recent, moisture, min) ==
    LET lowMoistureCount == Cardinality({i \in DOMAIN recent : Lt(SoilMoisture(recent[i]), Num(10 * min))})
    IN  Lt(moisture, Num(8 * min)) /\ lowMoistureCount >= 5

\* 2. extended period below threshold
dryStressDetection(recent, latest, moisture, min) ==
    IF dryStressTriggered(recent, moisture, min)
    THEN << Anomaly("Dry Stress",
                    IF Lt(moisture, Num(6 * min)) THEN "Critical" ELSE "High",
                    IF 7500 + 20 * (10 * min - ToNumber(moisture).v) > 9500 THEN 9500
                    ELSE 7500 + 20 * (10 * min - ToNumber(moisture).v), latest) >>
    ELSE << >>

\* moisture > max * 1.15 && highMoistureCount >= 3
overIrrigationTriggered(recent, moisture, max) ==
    LET highMoistureCount == Cardinality({i \in DOMAIN recent : Gt(SoilMoisture(recent[i]), Num(11 * max))})
    IN  AboveMaxTimes115(moisture, max) /\ highMoistureCount >= 3

\* 3. moisture consistently above safe range
overIrrigationDetection(recent, latest, moisture, max) ==
    IF overIrrigationTriggered(recent, moisture, max)
    THEN << Anomaly("Over-Irrigation",
                    IF Gt(moisture, Num(13 * max)) THEN "High" ELSE "Medium",
                    IF 6000 + 15 * (ToNumber(moisture).v - 10 * max) > 9000 THEN 9000
                    ELSE 6000 + 15 * (ToNumber(moisture).v - 10 * max), latest) >>
    ELSE << >>

\* 4. unusual variance: standard deviation of the recent moistures above 15
abnormalPatternDetection(recent, latest) ==
    LET \* recent.map(r => r.soil?.moisture).filter(v => v != null)
        idx == {i \in DOMAIN recent : IsNum(SoilMoisture(recent[i]))}
        n == Cardinality(idx)
        values == [i \in DOMAIN recent |-> IF i \in idx THEN SoilMoisture(recent[i]).v ELSE 0]
        squares == [i \in DOMAIN recent |-> values[i] * values[i]]
        \* n^2 * variance, in tenths squared
        spread == n * SumSeq(squares) - SumSeq(values) * SumSeq(values)
        \* the standard deviation in tenths, rounded down, where it is below 17.5
        stdDev == CHOOSE sd \in 150..175 :
                     sd * sd * n * n <= spread /\ spread < (sd + 1) * (sd + 1) * n * n
    IN  IF Len(recent) >= 5 /\ n > 0 /\ spread > 22500 * n * n
        THEN << Anomaly("Abnormal Pattern", "Medium",
                        IF spread >= 30625 * n * n THEN 8500 ELSE 5000 + 20 * stdDev,
                        latest) >>
        ELSE << >>

detectAnomalies(hist, data, c) ==
    IF insufficientHistory(hist) THEN << >>
    ELSE
    LET records == hist.records
        \* currentData || history[history.length - 1]
        latest == IF data.present THEN data ELSE records[Len(records)]
        recent == LastTen(records)
        moisture == latest.soil.moisture
        cropType == ResolveCropType(latest, c)
        config == ConfigOf(cropType)
        dry == dryStressDetection(recent, latest, moisture, config.min)
        over == overIrrigationDetection(recent, latest, moisture, config.max)
    IN  IF ~latest.soil.present THEN << >>
        ELSE IF (dry # << >> \/ over # << >>) /\ ~IsNum(moisture) THEN RejectedAnomalies
        ELSE leakDetection(records, latest, moisture, cropType)
             \o dry \o over \o abnormalPatternDetection(recent, latest)

----------------------------------------------------------------------------
(* Inputs of the recommendation generator *)

\* moisture values drawn: every 2.5 % between the two indices
MinMoistureIdx == 6
MaxMoistureIdx == 33
MoistureGrid == {25 * i : i \in MinMoistureIdx..MaxMoistureIdx}

\* clock hours at which a request may arrive
Hours == {6, 12, 19}

NoCrop == [present |-> FALSE, name |-> ""]
CropDoc(n) == [present |-> TRUE, name |-> n]

\* (reading.cropType, crop document) pairs: every table entry, a name that
\* is not in the table, and a reading without cropType
CropInputs ==
    {<<n, NoCrop>> : n \in CropNames \cup {"Barley"}}
    \cup {<<"", c>> : c \in {NoCrop, CropDoc("Wheat"), CropDoc("Barley")}}

Soils ==
    {[present |-> FALSE, moisture |-> Undefined],
     [present |-> TRUE, moisture |-> Undefined],
     [present |-> TRUE, moisture |-> Null]}
    \cup {[present |-> TRUE, moisture |-> Num(m)] : m \in MoistureGrid \cup {180, 220, 650}}

Forecasts ==
    {EmptyForecast, [present |-> TRUE, nextRainHours |-> Null]}
    \cup {[present |-> TRUE, nextRainHours |-> Num(n)] : n \in {0, 3, 6}}

\* weather blocks: absent, complete, or with one field missing
Weathers ==
    {EmptyWeather} \cup
    {w \in [present : {TRUE},
            temperature : {Undefined, Num(28)},
            humidity : {Undefined, Num(30), Num(100)},
            windSpeed : {Undefined, Num(10)},
            solarRadiation : {Undefined, Num(500)},
            chanceOfRain : {Undefined, Num(50), Num(60)},
            forecast : Forecasts] :
        Cardinality({f \in {"temperature", "humidity", "windSpeed", "solarRadiation"} :
                        w[f] = Undefined}) <= 1}

NoData == [present |-> FALSE, soil |-> [present |-> FALSE, moisture |-> Undefined],
           weather |-> EmptyWeather, cropType |-> "", timestamp |-> 0]

Readings ==
    {NoData} \cup
    {[present |-> TRUE, soil |-> s, weather |-> w, cropType |-> ci[1], timestamp |-> 0] :
        s \in Soils, w \in Weathers, ci \in CropInputs}

NotComputed ==
    [action |-> "", reason |-> NoField,
     amount |-> Undefined, duration |-> Undefined, recommendedTime |-> NoField,
     hoursUntilNext |-> Undefined, priority |-> NoField, et |-> Undefined]

\* the parts of the state a direct call of one engine function leaves alone
NoSavings == [saved |-> Undefined, percentage |-> Undefined, baseline |-> Undefined,
              optimized |-> Undefined, irrigationEvents |-> Undefined,
              daysAnalyzed |-> Undefined]

AlertsIdle == alerts = << >> /\ ledState = "null"

\* the time the behaviours start at, in seconds (any time at least
\* MIN_DELAY_MS after time 0)
StartTime == 10

TelegramIdle ==
    /\ clock = StartTime
    /\ tgEnabled = TRUE
    /\ sentAlerts = << >>
    /\ lastMessageTime = 0
    /\ tgCalls = << >>

NoRecord == [present |-> FALSE]

SynthesisIdle ==
    /\ isRunning = FALSE
    /\ interval = 0
    /\ timers = {}
    /\ startCalls = << >>
    /\ lastOp = "none"
    /\ synthLatest = NoRecord
    /\ synthCrop = ""

MLIdle == mlArgs = << >> /\ mlResult = << >>

ServicesIdle == AlertsIdle /\ TelegramIdle /\ SynthesisIdle /\ MLIdle

StoreIdle == store = << >> /\ dbConnected = TRUE

ESP32Idle ==
    /\ enabled = TRUE
    /\ lastState = "null"
    /\ deviceState = "normal"
    /\ calls = << >>
    /\ requestsSent = 0

----------------------------------------------------------------------------
(* A request that computes the recommendation for a reading *)

\* historicalData = [] when the caller passes none
EmptyHistory == [present |-> TRUE, records |-> << >>]

Init ==
    /\ \E ci \in CropInputs :
          /\ currentData \in {r \in Readings : r.cropType = ci[1]}
          /\ crop = ci[2]
    /\ history = EmptyHistory
    /\ hour = 0
    /\ recommendation = NotComputed
    /\ anomalies = << >>
    /\ waterSavings = NoSavings
    /\ yieldHealth = Undefined
    /\ pc = "request"
    /\ StoreIdle
    /\ ServicesIdle
    /\ ESP32Idle

GenerateRecommendation ==
    /\ pc = "request"
    /\ \E h \in Hours :
          /\ hour' = h
          /\ recommendation' = generateRecommendation(currentData, crop, history, h)
    /\ pc' = "recommended"
    /\ UNCHANGED <<currentData, crop, history, anomalies, waterSavings, yieldHealth>>
    /\ UNCHANGED <<storeVars, espVars, serviceVars>>

Next == GenerateRecommendation

Spec == Init /\ [][Next]_vars

----------------------------------------------------------------------------
(* Properties of the recommendation generator *)

Recommended == pc = "recommended"
cfg == ConfigOf(ResolveCropType(currentData, crop))
HasSoil == currentData.present /\ currentData.soil.present
HasMoisture == HasSoil /\ IsNum(currentData.soil.moisture)
m10 == currentData.soil.moisture.v
NoRainForecast ==
    \/ ~currentData.weather.present
    \/ ~currentData.weather.forecast.present
    \/ currentData.weather.forecast.nextRainHours \in {Null, Undefined}

\* C1: a reading whose moisture is above 1.1 x max of its crop profile gets
\* action Stop with amount 0, duration 0 and hoursUntilNext 24, whatever the
\* weather and the forecast are.
C1_StopAboveRange ==
    (Recommended /\ HasMoisture /\ 10 * m10 > 11 * 10 * cfg.max) =>
        /\ recommendation.action = "Stop"
        /\ recommendation.amount = Num(0)
        /\ recommendation.duration = Num(0)
        /\ recommendation.hoursUntilNext = Num(24)

C1_Witness ==
    /\ Recommended /\ HasMoisture
    /\ currentData.cropType = "Wheat" /\ m10 = 650
    /\ currentData.weather.forecast.nextRainHours = Num(3)
    /\ recommendation.action = "Stop"
    /\ recommendation.hoursUntilNext = Num(24)

\* C2: a reading with moisture below min and no rain forecast gets action
\* Irrigate and an amount between 0.5 x and 1.5 x waterPerIrrigation.
C2_IrrigateAmountInRange ==
    (Recommended /\ HasMoisture /\ m10 < 10 * cfg.min /\ NoRainForecast) =>
        /\ recommendation.action = "Irrigate"
        /\ IsNum(recommendation.amount)
        /\ recommendation.amount.v >= 500 * cfg.waterPerIrrigation
        /\ recommendation.amount.v <= 1500 * cfg.waterPerIrrigation

\* C3: an Irrigate recommendation has priority Critical when moisture is
\* below 0.7 x min and priority High when moisture is in [0.7 x min, min).
C3_IrrigatePriority ==
    (Recommended /\ HasMoisture /\ recommendation.action = "Irrigate") =>
        /\ (10 * m10 < 7 * 10 * cfg.min => recommendation.priority = "Critical")
        /\ (10 * m10 >= 7 * 10 * cfg.min /\ m10 < 10 * cfg.min
                => recommendation.priority = "High")

C3_Witness ==
    /\ Recommended /\ HasMoisture
    /\ currentData.cropType = "Wheat" /\ m10 = 180 /\ NoRainForecast
    /\ recommendation.action = "Irrigate"
    /\ recommendation.priority = "Critical"

\* C4: every recommendation for a reading with a soil block carries a
\* priority: High for Stop, Low for Delay, Monitor and Maintain.
C4_PriorityTag ==
    (Recommended /\ HasSoil) =>
        /\ (recommendation.action = "Stop" => recommendation.priority = "High")
        /\ (recommendation.action \in {"Delay", "Monitor", "Maintain"}
                => recommendation.priority = "Low")

\* C5: a reading that does not include soil.moisture gets the Pending
\* recommendation, also when its soil block is present without a moisture.
C5_PendingWithoutMoisture ==
    (Recommended /\ ~HasMoisture) =>
        /\ recommendation.action = "Pending"
        /\ recommendation.reason = "Collecting initial data..."

\* C6: the ET of a reading is a number >= 0 also when weather fields are
\* missing, so a reading without a weather block still gets a numeric amount
\* and a numeric et.
C6_ETDefined ==
    (Recommended /\ HasMoisture /\ recommendation.action # "Stop") =>
        /\ IsNum(recommendation.et)
        /\ recommendation.et.v >= 0
        /\ IsNum(recommendation.amount)

\* C7: below min (and not above 1.1 x max), rain in h hours with 0 <= h < 6
\* and chanceOfRain > 50 gives Delay with amount 0 and hoursUntilNext h + 2;
\* Irrigate is returned in that band only when that rain condition fails.
RainSoon ==
    /\ currentData.weather.present
    /\ currentData.weather.forecast.present
    /\ IsNum(currentData.weather.forecast.nextRainHours)
    /\ currentData.weather.forecast.nextRainHours.v >= 0
    /\ currentData.weather.forecast.nextRainHours.v < 6
    /\ IsNum(currentData.weather.chanceOfRain)
    /\ currentData.weather.chanceOfRain.v > 50

C7_DelayOnRain ==
    (Recommended /\ HasMoisture /\ m10 < 10 * cfg.min /\ 10 * m10 <= 11 * 10 * cfg.max) =>
        /\ (RainSoon =>
                /\ recommendation.action = "Delay"
                /\ recommendation.amount = Num(0)
                /\ recommendation.hoursUntilNext
                       = Num(currentData.weather.forecast.nextRainHours.v + 2))
        /\ (recommendation.action = "Irrigate" => ~RainSoon)

\* C8: the action is decided by moisture in priority order: above 1.1 x max
\* Stop, else below min Delay or Irrigate, else below the midpoint Monitor,
\* else Maintain; and the amount is positive only for Irrigate.
C8_Partition ==
    (Recommended /\ HasMoisture) =>
        /\ recommendation.action \in {"Irrigate", "Delay", "Stop", "Monitor", "Maintain"}
        /\ IF 10 * m10 > 11 * 10 * cfg.max THEN recommendation.action = "Stop"
           ELSE IF m10 < 10 * cfg.min THEN recommendation.action \in {"Delay", "Irrigate"}
           ELSE IF 2 * m10 < 10 * (cfg.min + cfg.max) THEN recommendation.action = "Monitor"
           ELSE recommendation.action = "Maintain"
        /\ (IsNum(recommendation.amount) /\ recommendation.amount.v > 0
                => recommendation.action = "Irrigate")

C8_Witness ==
    /\ Recommended /\ HasMoisture
    /\ currentData.cropType = "Maize" /\ m10 = 450
    /\ recommendation.action = "Monitor"
    /\ recommendation.amount = Num(0)

\* C15: whenever the generator returns Irrigate or Monitor and the daily ET
\* is a non-negative number (zero included), hoursUntilNext is a number h
\* with 1 <= h <= 48.
C15_HoursUntilNextClamped ==
    (/\ Recommended
     /\ recommendation.action \in {"Irrigate", "Monitor"}
     /\ IsNum(recommendation.et) /\ recommendation.et.v >= 0) =>
        /\ IsNum(recommendation.hoursUntilNext)
        /\ recommendation.hoursUntilNext.v >= 1
        /\ recommendation.hoursUntilNext.v <= 48

\* a Monitor recommendation under a zero ET: the division by zero is cut to 48
C15_Witness ==
    /\ Recommended
    /\ recommendation.action = "Monitor"
    /\ recommendation.et = Num(0)
    /\ IsNum(calculateET(WeatherOrEmpty(currentData), ResolveCropType(currentData, crop)))
    /\ recommendation.hoursUntilNext = Num(48)

----------------------------------------------------------------------------
(* A call of the anomaly detector on a stored history *)

\* longest history drawn
MaxHistory == 12

HistoryMoistures == {220, 450, 800}
CurrentMoistures == {175, 220, 250, 450, 575, 600, 800, 850, 950}

\* minutes between two stored readings (the synthesis interval, three hours)
Gaps == {15, 180}

\* a stored reading carries the five weather fields of the schema, or none
StoredWeather ==
    [present |-> TRUE, temperature |-> Num(28), humidity |-> Num(30),
     windSpeed |-> Num(10), solarRadiation |-> Num(500),
     chanceOfRain |-> Num(0), forecast |-> EmptyForecast]

Reading(soil, w, ct, ts) ==
    [present |-> TRUE, soil |-> soil, weather |-> w, cropType |-> ct, timestamp |-> ts]

WithMoisture(m) == [present |-> TRUE, moisture |-> Num(m)]

\* histories of n readings, the first k at one moisture and the rest at
\* another, one gap apart
TwoPhase(n, k, a, b, gap, w, ct) ==
    [i \in 1..n |-> Reading(WithMoisture(IF i <= k THEN a ELSE b), w, ct, i * gap)]

CurrentSoils ==
    {[present |-> FALSE, moisture |-> Undefined],
     [present |-> TRUE, moisture |-> Undefined],
     [present |-> TRUE, moisture |-> Null]}
    \cup {WithMoisture(m) : m \in CurrentMoistures}

InitAnomaly ==
    /\ \E n \in 0..MaxHistory, gap \in Gaps, w \in {EmptyWeather, StoredWeather},
          ct \in {"Wheat", "Rice", ""} :
          /\ \/ history = [present |-> FALSE, records |-> << >>]
             \/ \E k \in 0..n, a \in HistoryMoistures, b \in HistoryMoistures :
                   history = [present |-> TRUE,
                              records |-> TwoPhase(n, k, a, b, gap, w, ct)]
          /\ \/ currentData = NoData /\ n > 0
             \/ \E s \in CurrentSoils : currentData = Reading(s, w, ct, (n + 1) * gap)
    /\ crop \in {NoCrop, CropDoc("Maize")}
    /\ hour = 0
    /\ recommendation = NotComputed
    /\ anomalies = << >>
    /\ waterSavings = NoSavings
    /\ yieldHealth = Undefined
    /\ pc = "request"
    /\ StoreIdle
    /\ ServicesIdle
    /\ ESP32Idle

DetectAnomalies ==
    /\ pc = "request"
    /\ anomalies' = detectAnomalies(history, currentData, crop)
    /\ pc' = "detected"
    /\ UNCHANGED <<currentData, crop, history, hour, recommendation, waterSavings, yieldHealth>>
    /\ UNCHANGED <<storeVars, espVars, serviceVars>>

NextAnomaly == DetectAnomalies

SpecAnomaly == InitAnomaly /\ [][NextAnomaly]_vars

----------------------------------------------------------------------------
(* Properties of the anomaly detector *)

Detected == pc = "detected"
Types == {anomalies[i].type : i \in DOMAIN anomalies}
HistoryLen == Len(history.records)
Latest == IF currentData.present THEN currentData ELSE history.records[HistoryLen]
LatestCfg == ConfigOf(ResolveCropType(Latest, crop))
\* the records at the last ten positions of the history
RecentIdx == {i \in 1..HistoryLen : i > HistoryLen - 10}
LowCount ==
    Cardinality({i \in RecentIdx :
        /\ history.records[i].soil.present
        /\ IsNum(history.records[i].soil.moisture)
        /\ history.records[i].soil.moisture.v < 10 * LatestCfg.min})
LatestNumeric == Latest.soil.present /\ IsNum(Latest.soil.moisture)
LatestHasNull == Latest.soil.present /\ Latest.soil.moisture = Null

\* C9: the detector returns the empty list when the history is absent or has
\* fewer than 5 records, whatever the latest reading and the crop are.
C9_EmptyOnShortHistory ==
    (Detected /\ (~history.present \/ HistoryLen < 5)) => anomalies = << >>

C9_Witness ==
    /\ Detected /\ history.present /\ HistoryLen = 4
    /\ \A i \in 1..4 : history.records[i].soil.moisture = Num(800)
    /\ currentData.present /\ currentData.soil.moisture = Num(800)
    /\ currentData.cropType = "Wheat"
    /\ anomalies = << >>

\* C10: with a history of at least 5 records, a Dry Stress anomaly is listed
\* exactly when the current moisture is below 0.8 x min and at least 5 of the
\* last 10 records are below min; its severity is Critical below 0.6 x min
\* and High otherwise.
C10_DryStress ==
    (Detected /\ history.present /\ HistoryLen >= 5 /\ ~LatestHasNull) =>
        /\ ("Dry Stress" \in Types) <=>
              (LatestNumeric /\ 10 * Latest.soil.moisture.v < 8 * 10 * LatestCfg.min
               /\ LowCount >= 5)
        /\ \A i \in DOMAIN anomalies :
              anomalies[i].type = "Dry Stress" =>
                 anomalies[i].severity =
                    IF 10 * Latest.soil.moisture.v < 6 * 10 * LatestCfg.min
                    THEN "Critical" ELSE "High"

C10_Witness ==
    /\ Detected /\ history.present /\ HistoryLen = 10 /\ ~currentData.present
    /\ \A i \in 1..10 : history.records[i].soil.moisture = Num(220)
    /\ Latest.cropType = "Wheat"
    /\ \E i \in DOMAIN anomalies :
          anomalies[i].type = "Dry Stress" /\ anomalies[i].severity = "High"

\* the record the detector compares the latest reading with, the moisture
\* drop between the two in tenths, and the minutes between them
Previous == history.records[HistoryLen - 1]
Drop == Previous.soil.moisture.v - Latest.soil.moisture.v
MinutesApart == Latest.timestamp - Previous.timestamp
LatestET == calculateET(WeatherOrEmpty(Latest), ResolveCropType(Latest, crop))
\* the drop is more than twice what evaporation takes in that interval
\* (drop / 10 > 2 * ET / 1000 * minutes / 1440 / 10); a reading whose
\* weather is incomplete has no evaporation that would explain the drop
DropExceedsET == IsNum(LatestET) => Drop * 1440000 > 2 * LatestET.v * MinutesApart
HighCount ==
    Cardinality({i \in RecentIdx :
        /\ history.records[i].soil.present
        /\ IsNum(history.records[i].soil.moisture)
        /\ 10 * history.records[i].soil.moisture.v > 11 * 10 * LatestCfg.max})

\* C11: a Leak anomaly is listed exactly when the moisture dropped by more
\* than 8 points between the two most recent records, these are less than
\* 2 hours apart, and the drop is more than twice the ET-predicted drop; its
\* confidence is min(95, 70 + 2 x drop).
C11_Leak ==
    (Detected /\ history.present /\ HistoryLen >= 5 /\ LatestNumeric) =>
        /\ ("Leak" \in Types) <=> (Drop > 80 /\ MinutesApart < 120 /\ DropExceedsET)
        /\ \A i \in DOMAIN anomalies :
              anomalies[i].type = "Leak" =>
                 /\ anomalies[i].confidence =
                       (IF 7000 + 20 * Drop > 9500 THEN 9500 ELSE 7000 + 20 * Drop)
                 /\ anomalies[i].confidence <= 9500

\* C12: an Over-Irrigation anomaly is listed exactly when the current
\* moisture is above 1.15 x max and at least 3 of the last 10 records are
\* above 1.1 x max; its severity is High above 1.3 x max and Medium otherwise.
C12_OverIrrigation ==
    (Detected /\ history.present /\ HistoryLen >= 5 /\ ~LatestHasNull) =>
        /\ ("Over-Irrigation" \in Types) <=>
              (LatestNumeric /\ 100 * Latest.soil.moisture.v > 115 * 10 * LatestCfg.max
               /\ HighCount >= 3)
        /\ \A i \in DOMAIN anomalies :
              anomalies[i].type = "Over-Irrigation" =>
                 anomalies[i].severity =
                    IF 10 * Latest.soil.moisture.v > 13 * 10 * LatestCfg.max
                    THEN "High" ELSE "Medium"

----------------------------------------------------------------------------
(* Yield health *)

\* a field of the soil block; a field the block does not carry is undefined
SoilField(soil, f) == IF f \in DOMAIN soil THEN soil[f] ELSE Undefined

\* value || 0
OrZero(x) == IF Truthy(x) THEN x.v ELSE 0

\* Math.max(0, Math.min(1, 1 - Math.abs(target - value) / scale)) as a
\* numerator over scale
closeness(target, value, scale) ==
    LET d == scale - Abs(target - value)
    IN  IF d < 0 THEN 0 ELSE IF d > scale THEN scale ELSE d

\* the moisture score as a fraction <<numerator, denominator>>; moisture in
\* tenths. A moisture that is not a number fails all three comparisons and
\* the last branch computes NaN.
moistureScore(moisture, min, max) ==
    LET m == ToNumber(moisture)
    IN  IF ~IsNum(m) THEN NaN
        ELSE IF m.v >= 10 * min /\ m.v <= 10 * max THEN Num(<<1, 1>>)
        ELSE IF m.v < 10 * min
             \* Math.max(0.2, moisture / min)
             THEN (IF 5 * m.v < 10 * min THEN Num(<<1, 5>>) ELSE Num(<<m.v, 10 * min>>))
             \* Math.max(0.3, 1 - (moisture - max) / (max * 0.5))
             ELSE (IF 10 * (30 * max - 2 * m.v) < 3 * 10 * max
                   THEN Num(<<3, 10>>) ELSE Num(<<30 * max - 2 * m.v, 10 * max>>))

\* the seven weights, in hundredths
weights == [n |-> 15, p |-> 10, k |-> 10, ph |-> 10, moisture |-> 35, temp |-> 10, sun |-> 10]

\* Math.max(0, Math.min(100, Math.round(finalScore))): the part of
\* predictYieldHealth after its guard. pH in tenths, the other fields in
\* their own units. The six scores other than the moisture score are
\* numerators over 3600. The sum is computed exactly; the floating point
\* sum differs from it by less than 1e-12, so Math.round agrees with the
\* exact rounding except at an exact half, where the floating sum falls on
\* either side: halfUp tells which.
yieldScore(data, c, halfUp) ==
    LET soil == data.soil
        weather == data.weather
        nScore == closeness(80, OrZero(SoilField(soil, "nitrogen")), 80) * 45
        pScore == closeness(45, OrZero(SoilField(soil, "phosphorus")), 45) * 80
        kScore == closeness(50, OrZero(SoilField(soil, "potassium")), 50) * 72
        ph == SoilField(soil, "ph")
        phScore == IF Truthy(ph) THEN closeness(65, ph.v, 30) * 120 ELSE 2520
        config == ConfigOf(ResolveCropType(data, c))
        mScore == moistureScore(soil.moisture, config.min, config.max)
        tempScore == IF Truthy(weather.temperature)
                     THEN closeness(25, weather.temperature.v, 15) * 240 ELSE 2520
        \* Math.min(1, solarRadiation / 600)
        sunScore == IF Truthy(weather.solarRadiation)
                    THEN (IF weather.solarRadiation.v > 600 THEN 600
                          ELSE weather.solarRadiation.v) * 6
                    ELSE 2160
        others == nScore * weights.n + pScore * weights.p + kScore * weights.k
                  + phScore * weights.ph + tempScore * weights.temp + sunScore * weights.sun
        \* finalScore = num / den
        num == others * mScore.v[2] + weights.moisture * mScore.v[1] * 3600
        den == 3600 * mScore.v[2]
        q == (2 * num + den) \div (2 * den)
        rounded == IF (2 * num + den) % (2 * den) = 0 /\ ~halfUp THEN q - 1 ELSE q
    IN  IF ~IsNum(mScore) THEN NaN
        ELSE Num(IF rounded < 0 THEN 0 ELSE IF rounded > 100 THEN 100 ELSE rounded)

\* variant: the guard does not look at the weather block
predictYieldHealth_NoWeatherCheck(data, c, halfUp) ==
    IF ~data.present \/ ~data.soil.present THEN Num(0)
    ELSE yieldScore(data, c, halfUp)

predictYieldHealth(data, c, halfUp) ==
    IF ~data.present \/ ~data.soil.present \/ ~data.weather.present THEN Num(0)
    ELSE yieldScore(data, c, halfUp)

----------------------------------------------------------------------------
(* A call of predictYieldHealth on a reading of the store *)

\* soil blocks of the readings schema: moisture is required, the nutrient
\* fields and pH are optional
YieldMoistures == {50, 100, 300, 400, 500, 600, 700, 900, 1200}

YieldSoils ==
    [present : {TRUE},
     moisture : {Num(m) : m \in YieldMoistures},
     nitrogen : {Undefined, Num(0), Num(80), Num(200)},
     phosphorus : {Undefined, Num(20), Num(45)},
     potassium : {Undefined, Num(50), Num(120)},
     ph : {Undefined, Num(20), Num(65), Num(80)}]

YieldWeathers ==
    [present : {TRUE},
     temperature : {Undefined, Num(0), Num(25), Num(28), Num(45)},
     humidity : {Num(65)},
     windSpeed : {Num(10)},
     solarRadiation : {Undefined, Num(300), Num(600), Num(1000)},
     chanceOfRain : {Num(0)},
     forecast : {EmptyForecast}]

AbsentSoil == [present |-> FALSE, moisture |-> Undefined]

InitYield ==
    /\ \E ct \in {"Wheat", "Rice", ""} :
          \/ currentData = NoData
          \/ \E s \in YieldSoils, w \in YieldWeathers :
                currentData \in {Reading(s, w, ct, 0), Reading(s, EmptyWeather, ct, 0),
                                 Reading(AbsentSoil, w, ct, 0)}
    /\ crop \in {NoCrop, CropDoc("Maize")}
    /\ history = EmptyHistory
    /\ hour = 0
    /\ recommendation = NotComputed
    /\ anomalies = << >>
    /\ waterSavings = NoSavings
    /\ yieldHealth = Undefined
    /\ pc = "request"
    /\ StoreIdle
    /\ ServicesIdle
    /\ ESP32Idle

PredictYieldHealth ==
    /\ pc = "request"
    /\ \E halfUp \in BOOLEAN : yieldHealth' = predictYieldHealth(currentData, crop, halfUp)
    /\ pc' = "predicted"
    /\ UNCHANGED <<currentData, crop, history, hour, recommendation, anomalies, waterSavings>>
    /\ UNCHANGED <<storeVars, espVars, serviceVars>>

NextYield == PredictYieldHealth

SpecYield == InitYield /\ [][NextYield]_vars

----------------------------------------------------------------------------
(* Properties of predictYieldHealth *)

Predicted == pc = "predicted"

\* N = 80, P = 45, K = 50, pH = 6.5, moisture inside the crop's range,
\* temperature = 25 and solarRadiation = 600
IdealReading ==
    /\ currentData.present /\ currentData.soil.present /\ currentData.weather.present
    /\ SoilField(currentData.soil, "nitrogen") = Num(80)
    /\ SoilField(currentData.soil, "phosphorus") = Num(45)
    /\ SoilField(currentData.soil, "potassium") = Num(50)
    /\ SoilField(currentData.soil, "ph") = Num(65)
    /\ currentData.soil.moisture.v >= 10 * cfg.min
    /\ currentData.soil.moisture.v <= 10 * cfg.max
    /\ currentData.weather.temperature = Num(25)
    /\ currentData.weather.solarRadiation = Num(600)

----------------------------------------------------------------------------
(* Water savings *)

\* the object returned for a history of fewer than 7 records
ZeroSavings == [saved |-> Num(0), percentage |-> Num(0), baseline |-> Num(0),
                optimized |-> Num(0), irrigationEvents |-> Undefined,
                daysAnalyzed |-> Undefined]

\* record.soil?.moisture < prev.soil?.moisture * 0.95, moistures in tenths
isIrrigationEvent(record, prev) ==
    LET m == ToNumber(SoilMoisture(record))
        pm == ToNumber(SoilMoisture(prev))
    IN  IsNum(m) /\ IsNum(pm) /\ 20 * m.v < 19 * pm.v

\* amounts in thousandths of L/m2, percentage in thousandths of a percent,
\* timestamps in minutes. The floating point quotient saved / baseline
\* rounds as the exact one except at an exact half, where it falls on either
\* side: halfUp tells which.
calculateWaterSavings(historicalData, currentRecommendation, halfUp) ==
    IF ~historicalData.present \/ Len(historicalData.records) < 7 THEN ZeroSavings
    ELSE
    LET records == historicalData.records
        n == Len(records)
        \* Math.ceil((first.timestamp - last.timestamp) / one day)
        days == -((records[n].timestamp - records[1].timestamp) \div 1440)
        baselineAmount == 40000 * days
        last7Days == SubSeq(records, 1, IF n < 168 THEN n ELSE 168)
        irrigationEvents ==
            Cardinality({i \in 2..Len(last7Days) :
                            isIrrigationEvent(last7Days[i], last7Days[i - 1])})
        \* currentRecommendation?.amount || 35
        avgIrrigationAmount ==
            IF Truthy(currentRecommendation.amount) THEN currentRecommendation.amount.v
            ELSE 35000
        optimizedAmount == irrigationEvents * avgIrrigationAmount
        saved == IF baselineAmount - optimizedAmount > 0
                 THEN baselineAmount - optimizedAmount ELSE 0
        \* Math.round(percentage * 10), percentage = saved / baseline * 100
        percentageTenths ==
            IF baselineAmount > 0
            THEN ((2000 * saved + baselineAmount) \div (2 * baselineAmount))
                 - (IF (2000 * saved + baselineAmount) % (2 * baselineAmount) = 0 /\ ~halfUp
                    THEN 1 ELSE 0)
            ELSE 0
    IN  [saved |-> RoundTenth(Num(saved)),
         percentage |-> Num(100 * percentageTenths),
         baseline |-> RoundTenth(Num(baselineAmount)),
         optimized |-> RoundTenth(Num(optimizedAmount)),
         irrigationEvents |-> Num(irrigationEvents),
         daysAnalyzed |-> Num(IF days < 7 THEN days ELSE 7)]

----------------------------------------------------------------------------
(* GET /api/status *)

\* find().sort({timestamp: -1}) on readings with distinct timestamps
SortByTimestampDesc(records) ==
    LET n == Len(records)
        newer == [j \in 1..n |->
                    Cardinality({i \in 1..n : records[i].timestamp > records[j].timestamp})]
    IN  [i \in 1..n |-> records[CHOOSE j \in 1..n : newer[j] = i - 1]]

\* .limit(n)
Limit(records, n) == IF Len(records) <= n THEN records ELSE SubSeq(records, 1, n)

HistoryLimit == 50

\* what fetchWeatherData returns: the simulated weather (temperature 28,
\* humidity 65, a chance of rain below 40, no forecast rain) or a report of
\* the weather API
FetchedWeathers ==
    {[present |-> TRUE, temperature |-> Num(28), humidity |-> Num(65),
      windSpeed |-> Num(x[1]), solarRadiation |-> Num(x[2]), chanceOfRain |-> Num(x[3]),
      forecast |-> [present |-> TRUE, nextRainHours |-> Null]] :
        x \in {<<8, 400, 0>>, <<17, 599, 39>>}}
    \cup {[present |-> TRUE, temperature |-> Num(25), humidity |-> Num(30),
           windSpeed |-> Num(10), solarRadiation |-> Num(250), chanceOfRain |-> Num(80),
           forecast |-> [present |-> TRUE, nextRainHours |-> Num(3)]]}

\* Crop.findOne({name: cropType}) || Crop.findOne()
CropLookups(cropType) ==
    IF cropType # "" THEN {CropDoc(cropType), NoCrop} ELSE {CropDoc("Maize"), NoCrop}

\* mongoose.connection.readyState !== 1: the mock status is served
GetStatusMock ==
    /\ pc = "request"
    /\ ~dbConnected
    /\ pc' = "mock"
    /\ UNCHANGED <<currentData, crop, history, hour, recommendation, anomalies,
                   waterSavings, yieldHealth>>
    /\ UNCHANGED <<storeVars, espVars, serviceVars>>

\* the store is empty: 404
GetStatusEmpty ==
    /\ pc = "request"
    /\ dbConnected
    /\ store = << >>
    /\ pc' = "notfound"
    /\ UNCHANGED <<currentData, crop, history, hour, recommendation, anomalies,
                   waterSavings, yieldHealth>>
    /\ UNCHANGED <<storeVars, espVars, serviceVars>>

\* the queries, the weather merge and the four engine calls, up to the
\* response, for the weather reports and the hours of day given
GetStatusFor(weathers, hours) ==
    /\ pc = "request"
    /\ dbConnected
    /\ store # << >>
    /\ LET sorted == SortByTimestampDesc(store)
           recentHistory == [present |-> TRUE, records |-> Limit(sorted, HistoryLimit)]
       IN  /\ history' = recentHistory
           /\ \E enhancedWeather \in weathers, c \in CropLookups(sorted[1].cropType) :
                 \* latestData with its weather block overwritten field by field
                 LET latestData == [sorted[1] EXCEPT !.weather = enhancedWeather]
                 IN  /\ currentData' = latestData
                     /\ crop' = c
                     /\ anomalies' = detectAnomalies(recentHistory, latestData, c)
                     /\ \E halfUp \in BOOLEAN :
                           yieldHealth' = predictYieldHealth(latestData, c, halfUp)
                     /\ \E h \in hours, halfUp \in BOOLEAN :
                           /\ hour' = h
                           /\ recommendation' =
                                 generateRecommendation(latestData, c, recentHistory, h)
                           /\ waterSavings' =
                                 calculateWaterSavings(recentHistory, recommendation', halfUp)
    /\ pc' = "responded"

GetStatusCompute == GetStatusFor(FetchedWeathers, Hours)

\* the handler with the ESP32 service left out of account (the update of the
\* ESP32 is not awaited)
GetStatus ==
    /\ GetStatusCompute
    /\ UNCHANGED <<storeVars, espVars, serviceVars>>

\* largest store drawn below the history limit
MaxStore == 12

StoreSizes == (0..MaxStore) \cup {HistoryLimit + 1}

\* minutes between two readings of the store (the seed importer spaces them
\* one minute apart)
StoreGaps == {1, 240}

InitStatus ==
    /\ \E n \in StoreSizes, gap \in StoreGaps, ct \in {"Wheat", "Rice", ""},
          a \in HistoryMoistures, b \in HistoryMoistures :
          \* above the history limit only the first phase's length near the
          \* oldest readings is varied
          \E k \in 0..(IF n <= MaxStore THEN n ELSE 2) :
             store = TwoPhase(n, k, a, b, gap, StoredWeather, ct)
    /\ dbConnected \in BOOLEAN
    /\ currentData = NoData
    /\ crop = NoCrop
    /\ history = EmptyHistory
    /\ hour = 0
    /\ recommendation = NotComputed
    /\ anomalies = << >>
    /\ waterSavings = NoSavings
    /\ yieldHealth = Undefined
    /\ pc = "request"
    /\ enabled = FALSE
    /\ lastState = "null"
    /\ deviceState = "normal"
    /\ calls = << >>
    /\ requestsSent = 0
    /\ ServicesIdle

NextStatus == GetStatusMock \/ GetStatusEmpty \/ GetStatus

SpecStatus == InitStatus /\ [][NextStatus]_vars

----------------------------------------------------------------------------
(* Properties of GET /api/status *)

Responded == pc = "responded"

StoreTimestamps == {store[i].timestamp : i \in DOMAIN store}

\* the timestamps of the n newest readings of the store
Newest(n) == {t \in StoreTimestamps : Cardinality({u \in StoreTimestamps : u > t}) < n}

\* C13: when GET /api/status has run the detector on a store of at least 11
\* readings, the detector's window history.slice(-10) holds the 10 newest
\* readings of the store and its "previous" record history[length - 2] is
\* the reading immediately before the latest one.
C13_DetectorSeesNewest ==
    (Responded /\ Len(store) >= 11) =>
        /\ {LastTen(history.records)[i].timestamp : i \in DOMAIN LastTen(history.records)}
              = Newest(10)
        /\ Previous.timestamp \in Newest(2) \ Newest(1)

HistoryTimestamps == {history.records[i].timestamp : i \in DOMAIN history.records}

\* the history covers fewer than 7 days (timestamps in minutes)
CoversUnderSevenDays ==
    \A t \in HistoryTimestamps, u \in HistoryTimestamps : t - u < 7 * 1440

\* C17: calculateWaterSavings returns saved = 0 and percentage = 0 whenever
\* the history covers fewer than 7 days; in every case saved >= 0 and
\* 0 <= percentage <= 100.
C17_SavingsZeroUnderSevenDays ==
    Responded =>
        /\ CoversUnderSevenDays =>
              (waterSavings.saved = Num(0) /\ waterSavings.percentage = Num(0))
        /\ IsNum(waterSavings.saved) /\ waterSavings.saved.v >= 0
        /\ IsNum(waterSavings.percentage)
        /\ waterSavings.percentage.v >= 0 /\ waterSavings.percentage.v <= 100000

----------------------------------------------------------------------------
(* ESP32Service and the device behind it *)

validStates == {"normal", "caution", "critical"}

\* the states callers ask for; "alarm" is not a valid state
StateArgs == {"normal", "critical", "alarm"}

\* most calls of the service in one behaviour
MaxCalls == 3

\* a call of the service: op is the method, state the state it sends, pc
\* its position (sent: request on its way to the device; answered: response
\* on its way back; done: returned), answer the device's answer, result
\* what the call returned, alone whether no other call was in progress when
\* it began, error the error.code of a failure result
Call(op, state, p, result, alone) ==
    [op |-> op, state |-> state, pc |-> p, answer |-> "none", result |-> result,
     alone |-> alone, error |-> "none"]

\* error.code of a request that failed (a refused connection; a timeout
\* carries ECONNABORTED and is handled alike)
ErrorCodes == {"ECONNREFUSED"}

InFlight(c) == calls[c].pc \in {"sent", "answered"}

NoneInFlight == \A c \in DOMAIN calls : ~InFlight(c)

\* setState up to its await (or its return when it sends nothing)
setState(state) ==
    /\ Len(calls) < MaxCalls
    /\ IF ~enabled
       THEN /\ calls' = Append(calls, Call("setState", state, "done", "disabled", NoneInFlight))
            /\ UNCHANGED requestsSent
       ELSE IF state \notin validStates
       THEN /\ calls' = Append(calls, Call("setState", state, "done", "invalid", NoneInFlight))
            /\ UNCHANGED requestsSent
       ELSE IF lastState = state
       THEN /\ calls' = Append(calls, Call("setState", state, "done", "skipped", NoneInFlight))
            /\ UNCHANGED requestsSent
       ELSE /\ calls' = Append(calls, Call("setState", state, "sent", "none", NoneInFlight))
            /\ requestsSent' = requestsSent + 1
    /\ UNCHANGED <<enabled, lastState, deviceState>>

\* a direct call: POST /api/esp32/set
SetState(state) ==
    /\ setState(state)
    /\ UNCHANGED <<engineVars, storeVars, serviceVars>>

\* testConnection up to its await: GET /set?state=normal
TestConnection ==
    /\ Len(calls) < MaxCalls
    /\ calls' = Append(calls, Call("testConnection", "normal", "sent", "none", NoneInFlight))
    /\ requestsSent' = requestsSent + 1
    /\ UNCHANGED <<enabled, lastState, deviceState>>
    /\ UNCHANGED <<engineVars, storeVars, serviceVars>>

\* the device serves a request: it applies the state and answers 200 'OK',
\* or it answers something else and applies nothing
DeviceAnswers(c) ==
    /\ calls[c].pc = "sent"
    /\ \/ /\ deviceState' = calls[c].state
          /\ calls' = [calls EXCEPT ![c].pc = "answered", ![c].answer = "OK"]
       \/ /\ UNCHANGED deviceState
          /\ calls' = [calls EXCEPT ![c].pc = "answered", ![c].answer = "error"]
    /\ UNCHANGED <<enabled, lastState, requestsSent>>
    /\ UNCHANGED <<engineVars, storeVars, serviceVars>>

\* variant: any answer counts as success
responseOK_AnyAnswer(answer) == TRUE

\* response.status === 200 && response.data === 'OK'
responseOK(answer) == answer = "OK"

\* the call resumes with the response
ResponseArrives(c) ==
    /\ calls[c].pc = "answered"
    /\ IF calls[c].op = "setState"
       THEN IF responseOK(calls[c].answer)
            THEN /\ lastState' = calls[c].state
                 /\ calls' = [calls EXCEPT ![c].pc = "done", ![c].result = "ok"]
            ELSE /\ UNCHANGED lastState
                 /\ calls' = [calls EXCEPT ![c].pc = "done", ![c].result = "failed"]
       \* testConnection: success is response.status === 200
       ELSE /\ UNCHANGED lastState
            /\ calls' = [calls EXCEPT ![c].pc = "done",
                                      ![c].result = IF calls[c].answer = "OK" THEN "ok"
                                                    ELSE "failed"]
    /\ UNCHANGED <<enabled, deviceState, requestsSent>>
    /\ UNCHANGED <<engineVars, storeVars, serviceVars>>

\* variant: no catch branch, the failure leaves setState as a rejection
RequestFails_Rejects(c) ==
    /\ InFlight(c)
    /\ calls' = [calls EXCEPT ![c].pc = "done", ![c].result = "rejected"]
    /\ UNCHANGED <<enabled, lastState, deviceState, requestsSent>>
    /\ UNCHANGED <<engineVars, storeVars, serviceVars>>

\* the request is refused or times out (after 3 seconds), before or after
\* the device has served it: the catch branch
RequestFails(c) ==
    /\ InFlight(c)
    /\ \E code \in ErrorCodes :
          calls' = [calls EXCEPT ![c].pc = "done", ![c].result = "failed", ![c].error = code]
    /\ UNCHANGED <<enabled, lastState, deviceState, requestsSent>>
    /\ UNCHANGED <<engineVars, storeVars, serviceVars>>

InitESP32 ==
    /\ enabled \in BOOLEAN
    /\ lastState = "null"
    /\ deviceState = "normal"
    /\ calls = << >>
    /\ requestsSent = 0
    /\ currentData = NoData
    /\ crop = NoCrop
    /\ history = EmptyHistory
    /\ hour = 0
    /\ recommendation = NotComputed
    /\ anomalies = << >>
    /\ waterSavings = NoSavings
    /\ yieldHealth = Undefined
    /\ pc = "request"
    /\ StoreIdle
    /\ ServicesIdle

NextESP32 ==
    \/ \E state \in StateArgs : SetState(state)
    \/ TestConnection
    \/ \E c \in DOMAIN calls : DeviceAnswers(c)
    \/ \E c \in DOMAIN calls : ResponseArrives(c)
    \/ \E c \in DOMAIN calls : RequestFails(c)

SpecESP32 == InitESP32 /\ [][NextESP32]_vars

----------------------------------------------------------------------------
(* Properties of ESP32Service *)

\* the call that begins in this step, when one does
Begins == Len(calls') = Len(calls) + 1
Begun == calls'[Len(calls')]

\* call c returns in this step
Returns(c) == c \in DOMAIN calls /\ InFlight(c) /\ calls'[c].pc = "done"

\* a setState(s) for a valid s begins in this step
BeginsValid == Begins /\ Begun.op = "setState" /\ Begun.state \in validStates

\* skipped without a request when lastState = s, one request otherwise
SkipsOrSends ==
    IF lastState = Begun.state
    THEN Begun.pc = "done" /\ Begun.result = "skipped" /\ requestsSent' = requestsSent
    ELSE Begun.pc = "sent" /\ requestsSent' = requestsSent + 1

\* what a step may do to lastState and to the number of requests
LastStateFrame ==
    \* a call in progress sends no further request
    /\ ~Begins => requestsSent' = requestsSent
    \* lastState is not changed when a call begins
    /\ Begins => lastState' = lastState
    /\ \A c \in DOMAIN calls :
          \* the answer 200 'OK' makes lastState the state sent
          /\ (Returns(c) /\ calls[c].op = "setState" /\ calls'[c].result = "ok") =>
                (calls[c].answer = "OK" /\ lastState' = calls[c].state)
          \* any other answer, a timeout or a connection error leaves it
          /\ (Returns(c) /\ calls[c].op = "setState" /\ calls'[c].result # "ok") =>
                lastState' = lastState
          /\ (Returns(c) /\ calls[c].op = "setState" /\ calls[c].answer = "error") =>
                calls'[c].result = "failed"
    \* nothing else changes lastState
    /\ lastState' # lastState =>
          \E c \in DOMAIN calls : Returns(c) /\ calls[c].op = "setState" /\ calls[c].answer = "OK"

\* C18 as stated: setState(s) for a valid s sends no request and returns
\* skipped when lastState = s and otherwise sends exactly one request;
\* lastState becomes s only on the answer 200 'OK' and is unchanged by any
\* other answer, a timeout or a connection error.
C18_AsStated == [][(BeginsValid => SkipsOrSends) /\ LastStateFrame]_vars

\* C18 amended: the same, for a service that is enabled (a disabled service
\* sends nothing and returns a failure).
C18_SetStateGuard == [][((BeginsValid /\ enabled) => SkipsOrSends) /\ LastStateFrame]_vars

\* a setState that failed on the device's answer, the same state sent again,
\* acknowledged, and then skipped
C18_Witness ==
    /\ Len(calls) = 3
    /\ calls[1].op = "setState" /\ calls[1].state = "critical"
    /\ calls[1].answer = "error" /\ calls[1].result = "failed"
    /\ calls[2].op = "setState" /\ calls[2].state = "critical" /\ calls[2].result = "ok"
    /\ calls[3].op = "setState" /\ calls[3].state = "critical" /\ calls[3].result = "skipped"
    /\ requestsSent = 2
    /\ lastState = "critical"

\* every request so far was answered 200 'OK' and none failed
AllAnsweredOK ==
    \A c \in DOMAIN calls : calls[c].answer # "error" /\ calls[c].result # "failed"

\* the calls so far ran one after the other
Sequential == \A c \in DOMAIN calls : calls[c].alone

\* C19: after any sequence of setState and testConnection calls, every
\* request being answered 200 'OK', a non-null lastState equals the state
\* the device was last commanded into (so a skipped setState(s) finds the
\* device in state s).
C19_LastStateIsDeviceState ==
    (Sequential /\ AllAnsweredOK /\ NoneInFlight /\ lastState # "null") =>
        lastState = deviceState

\* two setState calls in flight at once
Overlap(c, d) ==
    /\ c # d
    /\ calls[c].op = "setState" /\ calls[d].op = "setState"
    /\ InFlight(c) /\ InFlight(d)

OnlySetStateCalls == \A c \in DOMAIN calls : calls[c].op = "setState"

\* C20: two overlapping setState(s) calls for the same s send at most one
\* request (no two requests for the same state are in flight at once), and
\* after overlapping setState(a) and setState(b), every request answered
\* 200 'OK', lastState equals the command the device applied last.
C20_GuardUnderOverlap ==
    /\ \A c, d \in DOMAIN calls : Overlap(c, d) => calls[c].state # calls[d].state
    /\ (OnlySetStateCalls /\ AllAnsweredOK /\ NoneInFlight /\ lastState # "null") =>
          lastState = deviceState

----------------------------------------------------------------------------
(* determineStateFromAlerts *)

\* a property of an alert object; one it does not carry reads as undefined
AlertField(a, f) == IF f \in DOMAIN a THEN a[f] ELSE NoField

isCriticalAlert(a) ==
    \/ AlertField(a, "severity") = "Critical"
    \/ AlertField(a, "priority") = "Critical"
    \/ AlertField(a, "type") = "Leak"
    \/ (AlertField(a, "type") = "Dry Stress" /\ AlertField(a, "severity") = "Critical")

isHighAlert(a) ==
    \/ AlertField(a, "severity") = "High"
    \/ AlertField(a, "priority") = "High"

\* rec is the recommendation object, NotComputed standing for null
determineStateFromAlerts(alertList, rec) ==
    IF \E i \in DOMAIN alertList : isCriticalAlert(alertList[i]) THEN "critical"
    ELSE IF (\E i \in DOMAIN alertList : isHighAlert(alertList[i])) \/ rec.priority = "High"
         THEN "caution"
    ELSE IF rec.priority = "Critical" THEN "critical"
    ELSE IF rec.priority = "Medium" \/ rec.action = "Irrigate" THEN "caution"
    ELSE "normal"

\* longest alert list drawn
MaxAlerts == 2

\* alerts as the detector and the alerts collection produce them, and
\* alerts carrying a priority
AlertInputs ==
    {[type |-> x[1], severity |-> x[2]] :
        x \in {<<"Leak", "High">>, <<"Dry Stress", "Critical">>, <<"Dry Stress", "High">>,
               <<"Over-Irrigation", "Medium">>, <<"General", "Low">>, <<"General", "Critical">>}}
    \cup {[type |-> "General", severity |-> "Medium", priority |-> q] :
            q \in {"High", "Critical"}}

\* recommendations by priority and action; NotComputed is the absent one
RecommendationInputs ==
    {NotComputed} \cup
    {[NotComputed EXCEPT !.action = x[1], !.priority = x[2]] :
        x \in {<<"Irrigate", "Critical">>, <<"Irrigate", "High">>, <<"Irrigate", "Medium">>,
               <<"Irrigate", NoField>>, <<"Stop", NoField>>, <<"Stop", "High">>,
               <<"Monitor", "Low">>, <<"Maintain", "Low">>, <<"Delay", "Low">>}}

InitAlerts ==
    /\ recommendation \in RecommendationInputs
    /\ alerts = << >>
    /\ ledState = determineStateFromAlerts(<< >>, recommendation)
    /\ currentData = NoData
    /\ crop = NoCrop
    /\ history = EmptyHistory
    /\ hour = 0
    /\ anomalies = << >>
    /\ waterSavings = NoSavings
    /\ yieldHealth = Undefined
    /\ pc = "request"
    /\ StoreIdle
    /\ ESP32Idle
    /\ TelegramIdle
    /\ SynthesisIdle
    /\ MLIdle

\* the state is determined again for the list with one more alert
AddAlert ==
    /\ Len(alerts) < MaxAlerts
    /\ \E a \in AlertInputs :
          /\ alerts' = Append(alerts, a)
          /\ ledState' = determineStateFromAlerts(alerts', recommendation)
    /\ UNCHANGED <<engineVars, storeVars, espVars, telegramVars, synthVars, mlVars>>

NextAlerts == AddAlert

SpecAlerts == InitAlerts /\ [][NextAlerts]_vars

----------------------------------------------------------------------------
(* Properties of determineStateFromAlerts *)

\* normal < caution < critical
StateRank(state) == CASE state = "normal" -> 0 [] state = "caution" -> 1 [] state = "critical" -> 2

CriticalInput ==
    \/ \E i \in DOMAIN alerts :
          \/ AlertField(alerts[i], "severity") = "Critical"
          \/ AlertField(alerts[i], "priority") = "Critical"
          \/ AlertField(alerts[i], "type") = "Leak"
    \/ recommendation.priority = "Critical"

\* C22: determineStateFromAlerts returns 'critical' whenever an alert has
\* severity or priority 'Critical' or type 'Leak', or the recommendation's
\* priority is 'Critical'; adding an alert never lowers the returned state
\* in the order normal < caution < critical; the result is one of the
\* three states.
C22_CriticalWinsAndMonotone ==
    /\ [](ledState \in validStates /\ (CriticalInput => ledState = "critical"))
    /\ [][StateRank(ledState') >= StateRank(ledState)]_vars

----------------------------------------------------------------------------
(* GET /api/status with the ESP32 update *)

\* Alert.find({status: 'Active'}): the stored alerts
DbAlerts ==
    {<< >>, <<[type |-> "Leak", severity |-> "High"]>>,
     <<[type |-> "Over-Irrigation", severity |-> "High"]>>}

\* the simulated weather report
SimulatedWeather == {w \in FetchedWeathers : w.windSpeed = Num(8)}

\* most calls of the ESP32 service in one behaviour of the handler
MaxStatusCalls == 2

\* the handler: statusData is computed, updateFromStatus is called without
\* being awaited and runs setState up to its await, and the response is sent
GetStatusUpdate ==
    /\ Len(calls) < MaxStatusCalls
    /\ GetStatusFor(SimulatedWeather, {12})
    /\ \E dbAlerts \in DbAlerts :
          /\ alerts' = anomalies' \o dbAlerts
          /\ ledState' = determineStateFromAlerts(alerts', recommendation')
          /\ setState(ledState')
    /\ UNCHANGED <<storeVars, telegramVars, synthVars, mlVars>>

\* the next request arrives
NextRequest ==
    /\ pc = "responded"
    /\ pc' = "request"
    /\ UNCHANGED <<currentData, crop, history, hour, recommendation, anomalies,
                   waterSavings, yieldHealth>>
    /\ UNCHANGED <<storeVars, espVars, serviceVars>>

InitStatusESP32 ==
    /\ store = TwoPhase(2, 1, 450, 450, 1, StoredWeather, "Wheat")
    /\ dbConnected = TRUE
    /\ currentData = NoData
    /\ crop = NoCrop
    /\ history = EmptyHistory
    /\ hour = 0
    /\ recommendation = NotComputed
    /\ anomalies = << >>
    /\ waterSavings = NoSavings
    /\ yieldHealth = Undefined
    /\ pc = "request"
    /\ enabled \in BOOLEAN
    /\ lastState = "null"
    /\ deviceState = "normal"
    /\ calls = << >>
    /\ requestsSent = 0
    /\ ServicesIdle

NextStatusESP32 ==
    \/ GetStatusUpdate
    \/ NextRequest
    \/ \E state \in StateArgs : Len(calls) < MaxStatusCalls /\ SetState(state)
    \/ \E c \in DOMAIN calls : DeviceAnswers(c)
    \/ \E c \in DOMAIN calls : ResponseArrives(c)
    \/ \E c \in DOMAIN calls : RequestFails(c)

SpecStatusESP32 == InitStatusESP32 /\ [][NextStatusESP32]_vars

----------------------------------------------------------------------------
(* Properties of setState under failures *)

\* the results that are resolutions with success: false
FailureResults == {"disabled", "invalid", "failed"}

\* a setState begins on a disabled service or with a state that is not valid
BeginsRefused ==
    Begins /\ Begun.op = "setState" /\ (~enabled \/ Begun.state \notin validStates)

\* call c returns in this step without an answer of the device
ReturnsUnanswered(c) == Returns(c) /\ calls[c].pc = "sent"

\* the response of the handler is what the engine computes from the data read
ResponseFromData ==
    /\ recommendation = generateRecommendation(currentData, crop, history, hour)
    /\ anomalies = detectAnomalies(history, currentData, crop)
    /\ ledState = determineStateFromAlerts(alerts, recommendation)

\* C21: setState never rejects: on a disabled service or for a state that
\* is not valid it resolves to a failure without sending a request and
\* without changing lastState; when the device is unreachable it resolves to
\* a failure carrying the error code; and the response of GET /api/status is
\* the same whatever the device does.
C21_SetStateNeverRejects ==
    /\ [](\A c \in DOMAIN calls :
             calls[c].pc = "done" => calls[c].result \in FailureResults \cup {"ok", "skipped"})
    /\ [](Responded => ResponseFromData)
    /\ [][/\ BeginsRefused =>
                /\ Begun.pc = "done"
                /\ Begun.result \in {"disabled", "invalid"}
                /\ requestsSent' = requestsSent
                /\ lastState' = lastState
          /\ \A c \in DOMAIN calls :
                ReturnsUnanswered(c) =>
                    /\ calls'[c].result = "failed"
                    /\ calls'[c].error \in ErrorCodes
                    /\ lastState' = lastState
          /\ (Responded /\ pc' = "responded") =>
                UNCHANGED <<engineVars, alerts, ledState>>]_vars

\* a status request answered after the update of an earlier one has failed
\* on an unreachable device
C21_Witness ==
    /\ Responded
    /\ Len(calls) = 2
    /\ calls[1].result = "failed" /\ calls[1].answer = "none"
    /\ calls[1].error = "ECONNREFUSED"
    /\ calls[2].alone
    /\ calls[2].state = ledState
    /\ lastState = "null"

----------------------------------------------------------------------------
(* TelegramService *)

\* times are in seconds
MIN_DELAY_MS == 2
MAX_MESSAGES_PER_MINUTE == 10
AlertCooldown == 60
PostTimeout == 5

\* most calls of the service, seconds past a full minute and minutes in one
\* behaviour
MaxTgCalls == 3
MaxSeconds == 2
MaxMinutes == 1

\* `${state}-${cropName || 'general'}-${moisture ? Math.floor(moisture) : 'unknown'}`,
\* the moisture in tenths of a percent
alertKey(state, cropName, moisture) ==
    <<state,
      IF cropName = "" THEN "general" ELSE cropName,
      IF Truthy(moisture) THEN moisture.v \div 10 ELSE -1>>

\* sentAlerts.get(key), 0 for undefined
sentAlertsGet(key) == IF key \in DOMAIN sentAlerts THEN sentAlerts[key] ELSE 0

\* a call of the service: op the method, key the alert key, started the
\* time it began, pc its position (waiting: in the setTimeout delay;
\* posting: the request is on its way; done), wake the time its delay ends,
\* postedAt the time its request was issued, result what it returned
TgCall(op, key, p, wake, postedAt, result) ==
    [op |-> op, key |-> key, started |-> clock, pc |-> p, wake |-> wake,
     postedAt |-> postedAt, result |-> result]

\* sendMessage up to its first await, for a call of method op
sendMessage(op, key) ==
    IF ~tgEnabled
    THEN tgCalls' = Append(tgCalls, TgCall(op, key, "done", 0, 0, "not configured"))
    ELSE LET timeSinceLastMessage == clock - lastMessageTime
         IN  IF timeSinceLastMessage < MIN_DELAY_MS
             THEN tgCalls' = Append(tgCalls,
                      TgCall(op, key, "waiting",
                             clock + (MIN_DELAY_MS - timeSinceLastMessage), 0, "none"))
             ELSE tgCalls' = Append(tgCalls, TgCall(op, key, "posting", 0, clock, "none"))

NoKey == <<"", "", -1>>

\* a direct call of sendMessage
SendMessage ==
    /\ Len(tgCalls) < MaxTgCalls
    /\ sendMessage("sendMessage", NoKey)
    /\ UNCHANGED <<clock, tgEnabled, sentAlerts, lastMessageTime>>
    /\ UNCHANGED <<engineVars, storeVars, espVars, alertVars, synthVars, mlVars>>

\* sendAlert up to its await
SendAlert(state, cropName, moisture) ==
    /\ Len(tgCalls) < MaxTgCalls
    /\ LET key == alertKey(state, cropName, moisture)
           lastSent == sentAlertsGet(key)
       IN  IF lastSent # 0 /\ clock - lastSent < AlertCooldown
           THEN tgCalls' = Append(tgCalls, TgCall("sendAlert", key, "done", 0, 0, "cooldown"))
           ELSE sendMessage("sendAlert", key)
    /\ UNCHANGED <<clock, tgEnabled, sentAlerts, lastMessageTime>>
    /\ UNCHANGED <<engineVars, storeVars, espVars, alertVars, synthVars, mlVars>>

\* the delay of a queued message ends: sendMessageDirect issues the request
TimerFires(c) ==
    /\ tgCalls[c].pc = "waiting"
    /\ clock >= tgCalls[c].wake
    /\ tgCalls' = [tgCalls EXCEPT ![c].pc = "posting", ![c].postedAt = clock]
    /\ UNCHANGED <<clock, tgEnabled, sentAlerts, lastMessageTime>>
    /\ UNCHANGED <<engineVars, storeVars, espVars, alertVars, synthVars, mlVars>>

\* the request succeeds: lastMessageTime is set, and sendAlert records the
\* time it began under its key
PostSucceeds(c) ==
    /\ tgCalls[c].pc = "posting"
    /\ clock - tgCalls[c].postedAt <= PostTimeout
    /\ lastMessageTime' = clock
    /\ tgCalls' = [tgCalls EXCEPT ![c].pc = "done", ![c].result = "sent"]
    /\ sentAlerts' = IF tgCalls[c].op = "sendAlert"
                     THEN (tgCalls[c].key :> tgCalls[c].started) @@ sentAlerts
                     ELSE sentAlerts
    /\ UNCHANGED <<clock, tgEnabled>>
    /\ UNCHANGED <<engineVars, storeVars, espVars, alertVars, synthVars, mlVars>>

\* the request fails or times out
PostFails(c) ==
    /\ tgCalls[c].pc = "posting"
    /\ tgCalls' = [tgCalls EXCEPT ![c].pc = "done", ![c].result = "failed"]
    /\ UNCHANGED <<clock, tgEnabled, sentAlerts, lastMessageTime>>
    /\ UNCHANGED <<engineVars, storeVars, espVars, alertVars, synthVars, mlVars>>

\* a second passes
Tick ==
    /\ (clock - StartTime) % 60 < MaxSeconds
    /\ clock' = clock + 1
    /\ UNCHANGED <<tgEnabled, sentAlerts, lastMessageTime, tgCalls>>
    /\ UNCHANGED <<engineVars, storeVars, espVars, alertVars, synthVars, mlVars>>

\* a minute passes
Minute ==
    /\ (clock - StartTime) \div 60 < MaxMinutes
    /\ clock' = clock + 60
    /\ UNCHANGED <<tgEnabled, sentAlerts, lastMessageTime, tgCalls>>
    /\ UNCHANGED <<engineVars, storeVars, espVars, alertVars, synthVars, mlVars>>

\* the alerts the status handler schedules: state critical or caution, the
\* crop of the reading, its moisture
AlertStates == {"critical"}
AlertMoistures == {Num(225), Num(310)}

InitTelegram ==
    /\ clock = StartTime
    /\ tgEnabled \in BOOLEAN
    /\ sentAlerts = << >>
    /\ lastMessageTime = 0
    /\ tgCalls = << >>
    /\ currentData = NoData
    /\ crop = NoCrop
    /\ history = EmptyHistory
    /\ hour = 0
    /\ recommendation = NotComputed
    /\ anomalies = << >>
    /\ waterSavings = NoSavings
    /\ yieldHealth = Undefined
    /\ pc = "request"
    /\ StoreIdle
    /\ ESP32Idle
    /\ AlertsIdle
    /\ SynthesisIdle
    /\ MLIdle

NextTelegram ==
    \/ \E state \in AlertStates, moisture \in AlertMoistures : SendAlert(state, "Wheat", moisture)
    \/ SendMessage
    \/ \E c \in DOMAIN tgCalls : TimerFires(c)
    \/ \E c \in DOMAIN tgCalls : PostSucceeds(c)
    \/ \E c \in DOMAIN tgCalls : PostFails(c)
    \/ Tick
    \/ Minute

SpecTelegram == InitTelegram /\ [][NextTelegram]_vars

----------------------------------------------------------------------------
(* Properties of TelegramService *)

\* call c has posted its message
Sent(c) == tgCalls[c].result = "sent"

\* C23: sendAlert sends at most one message per alert key within the
\* cooldown: of two sendAlert calls with the same key that both sent their
\* message, overlapping or not, the later began at least 60 seconds after
\* the earlier; and only a successful send starts a cooldown.
C23_OneAlertPerCooldown ==
    /\ \A c, d \in DOMAIN tgCalls :
          (/\ c < d
           /\ tgCalls[c].op = "sendAlert" /\ tgCalls[d].op = "sendAlert"
           /\ tgCalls[c].key = tgCalls[d].key
           /\ Sent(c) /\ Sent(d)) =>
              tgCalls[d].started - tgCalls[c].started >= AlertCooldown
    /\ \A key \in DOMAIN sentAlerts :
          \E c \in DOMAIN tgCalls :
             /\ tgCalls[c].op = "sendAlert" /\ tgCalls[c].key = key
             /\ Sent(c) /\ tgCalls[c].started = sentAlerts[key]

\* C24: any two messages posted to the chat are at least MIN_DELAY_MS apart,
\* and no more than MAX_MESSAGES_PER_MINUTE messages are posted within any
\* 60 seconds.
C24_RateLimited ==
    /\ \A c, d \in DOMAIN tgCalls :
          (c # d /\ Sent(c) /\ Sent(d) /\ tgCalls[c].postedAt <= tgCalls[d].postedAt) =>
              tgCalls[d].postedAt - tgCalls[c].postedAt >= MIN_DELAY_MS
    /\ \A c \in DOMAIN tgCalls :
          Cardinality({d \in DOMAIN tgCalls :
                          /\ Sent(c) /\ Sent(d)
                          /\ tgCalls[d].postedAt >= tgCalls[c].postedAt
                          /\ tgCalls[d].postedAt - tgCalls[c].postedAt < 60})
              <= MAX_MESSAGES_PER_MINUTE

----------------------------------------------------------------------------
(* DataSynthesisService *)

\* Synthetic readings carry hundredths (toFixed(2)): moisture and humidity
\* in hundredths of a percent, temperature in hundredths of a degree. The
\* random variations are in thousandths.

\* x || d on a field that holds a number, or nothing
OrDefault(x, d) == IF Truthy(x) THEN x.v ELSE d

\* String.prototype.toLowerCase on the crop names in use
toLowerCase(name) ==
    CASE name = "Rice" -> "rice"
      [] name = "Wheat" -> "wheat"
      [] name = "Maize" -> "maize"
      [] name = "Tomato" -> "tomato"
      [] name = "Unknown" -> "unknown"
      [] OTHER -> name

soilMap ==
    [rice |-> "clay", wheat |-> "loam", maize |-> "sandy loam", cotton |-> "black",
     sugarcane |-> "alluvial", default |-> "loam"]

fertilizerMap ==
    [rice |-> "Urea", wheat |-> "DAP", maize |-> "NPK", cotton |-> "Urea",
     sugarcane |-> "MOP", default |-> "NPK"]

getBaseSoilType(cropType) ==
    LET c == IF cropType # "" THEN toLowerCase(cropType) ELSE "default"
    IN  IF c \in DOMAIN soilMap THEN soilMap[c] ELSE soilMap["default"]

getBaseFertilizer(cropType) ==
    LET c == IF cropType # "" THEN toLowerCase(cropType) ELSE "default"
    IN  IF c \in DOMAIN fertilizerMap THEN fertilizerMap[c] ELSE fertilizerMap["default"]

\* parseFloat(x.toFixed(2)) on thousandths: the nearest hundredth (the
\* random terms drawn below give no ties)
toFixed2(x) == (x + 5) \div 10

Clamp(lo, hi, x) == IF x < lo THEN lo ELSE IF x > hi THEN hi ELSE x

\* a reading of the collection as the synthesis reads it
SynthRecord(cropType, moisture, temperature, humidity, soilType, fertilizerName, sim) ==
    [present |-> TRUE, cropType |-> cropType,
     soil |-> [moisture |-> moisture, soilType |-> soilType],
     weather |-> [temperature |-> temperature, humidity |-> humidity],
     fertilizerName |-> fertilizerName, isSimulated |-> sim]

\* latestData?.soil?.moisture and the like
LatestField(latestData, part, f) ==
    IF latestData.present THEN latestData[part][f] ELSE Undefined

\* variant: the new moisture is not clamped
generateSyntheticData_NoClamp(latestData, cropType, rnd) ==
    LET baseTemp == OrDefault(LatestField(latestData, "weather", "temperature"), 2500)
        baseHumidity == OrDefault(LatestField(latestData, "weather", "humidity"), 5000)
        baseMoisture == OrDefault(LatestField(latestData, "soil", "moisture"), 4000)
        baseCrop == IF cropType # "" THEN cropType
                    ELSE IF latestData.present /\ latestData.cropType # ""
                         THEN latestData.cropType
                    ELSE "Wheat"
        newMoisture == baseMoisture * 10 + rnd.moisture
    IN  SynthRecord(baseCrop,
                    Num(toFixed2(newMoisture)),
                    Num(toFixed2(Clamp(15000, 35000, baseTemp * 10 + rnd.temperature))),
                    Num(toFixed2(Clamp(30000, 90000, baseHumidity * 10 + rnd.humidity))),
                    getBaseSoilType(baseCrop),
                    getBaseFertilizer(baseCrop),
                    TRUE)

\* rnd holds the sums of the random terms: temperature (tempVariation +
\* tempTimeVariation), humidity, moisture (moistureVariation + moistureChange).
\* The fields drawn without reference to the arguments (pH, nutrients, rain,
\* wind, radiation) are left out.
generateSyntheticData(latestData, cropType, rnd) ==
    LET baseTemp == OrDefault(LatestField(latestData, "weather", "temperature"), 2500)
        baseHumidity == OrDefault(LatestField(latestData, "weather", "humidity"), 5000)
        baseMoisture == OrDefault(LatestField(latestData, "soil", "moisture"), 4000)
        baseCrop == IF cropType # "" THEN cropType
                    ELSE IF latestData.present /\ latestData.cropType # ""
                         THEN latestData.cropType
                    ELSE "Wheat"
        newMoisture == Clamp(20000, 80000, baseMoisture * 10 + rnd.moisture)
    IN  SynthRecord(baseCrop,
                    Num(toFixed2(newMoisture)),
                    Num(toFixed2(Clamp(15000, 35000, baseTemp * 10 + rnd.temperature))),
                    Num(toFixed2(Clamp(30000, 90000, baseHumidity * 10 + rnd.humidity))),
                    getBaseSoilType(baseCrop),
                    getBaseFertilizer(baseCrop),
                    TRUE)

\* values of the random terms: near the ends of their ranges
Randoms ==
    {[temperature |-> x[1], humidity |-> x[2], moisture |-> x[3]] :
        x \in {<<-6999, -7499, -5999>>, <<6999, 7499, 5999>>}}

\* most start calls in one behaviour
MaxStarts == 3

\* the crop of the chain followed: a crop type of the collection
chainCrop == IF synthLatest.present THEN synthLatest.cropType ELSE "Wheat"

\* one generateAndSave of generateForAllCrops, for the crop followed
Generate ==
    \E rnd \in Randoms :
       /\ synthCrop' = chainCrop
       /\ synthLatest' = generateSyntheticData(synthLatest, chainCrop, rnd)

\* variant: isRunning is not set before the await
Start_FlagAfterAwait ==
    /\ Len(startCalls) < MaxStarts
    /\ IF isRunning
       THEN startCalls' = Append(startCalls, "returned")
       ELSE startCalls' = Append(startCalls, "awaiting")
    /\ lastOp' = "start"
    /\ UNCHANGED <<isRunning, interval, timers, synthLatest, synthCrop>>
    /\ UNCHANGED <<engineVars, storeVars, espVars, alertVars, telegramVars, mlVars>>

\* start up to its await
Start ==
    /\ Len(startCalls) < MaxStarts
    /\ IF isRunning
       THEN /\ startCalls' = Append(startCalls, "returned")
            /\ UNCHANGED isRunning
       ELSE /\ isRunning' = TRUE
            /\ startCalls' = Append(startCalls, "awaiting")
    /\ lastOp' = "start"
    /\ UNCHANGED <<interval, timers, synthLatest, synthCrop>>
    /\ UNCHANGED <<engineVars, storeVars, espVars, alertVars, telegramVars, mlVars>>

\* the initial generation is through and start resumes: the timer is created
StartResumes(c) ==
    /\ startCalls[c] = "awaiting"
    /\ Generate
    /\ interval' = c
    /\ timers' = timers \cup {c}
    /\ startCalls' = [startCalls EXCEPT ![c] = "done"]
    /\ UNCHANGED <<isRunning, lastOp>>
    /\ UNCHANGED <<engineVars, storeVars, espVars, alertVars, telegramVars, mlVars>>

\* stop
Stop ==
    /\ IF interval # 0
       THEN /\ timers' = timers \ {interval}
            /\ interval' = 0
            /\ isRunning' = FALSE
       ELSE UNCHANGED <<timers, interval, isRunning>>
    /\ lastOp' = "stop"
    /\ UNCHANGED <<startCalls, synthLatest, synthCrop>>
    /\ UNCHANGED <<engineVars, storeVars, espVars, alertVars, telegramVars, mlVars>>

\* an interval timer fires: generateForAllCrops
IntervalFires ==
    /\ timers # {}
    /\ Generate
    /\ UNCHANGED <<isRunning, interval, timers, startCalls, lastOp>>
    /\ UNCHANGED <<engineVars, storeVars, espVars, alertVars, telegramVars, mlVars>>

\* crop arguments of a direct call: a crop of the tables, one that is not in
\* them, none
DirectCrops == {"Rice", "Unknown", ""}

\* a direct call of generateSyntheticData on the latest reading or on null
GenerateDirect ==
    /\ \E latestData \in {synthLatest, NoRecord}, cropType \in DirectCrops,
          rnd \in Randoms :
          /\ synthCrop' = cropType
          /\ synthLatest' = generateSyntheticData(latestData, cropType, rnd)
    /\ UNCHANGED <<isRunning, interval, timers, startCalls, lastOp>>
    /\ UNCHANGED <<engineVars, storeVars, espVars, alertVars, telegramVars, mlVars>>

\* readings the collection holds before the synthesis: none, a seeded
\* reading outside the ranges of the synthesis, one without weather values
SeededRecords ==
    {NoRecord,
     SynthRecord("Tomato", Num(1250), Num(4100), Num(9500), "Loamy", "Urea", FALSE),
     SynthRecord("Rice", Num(0), Undefined, Undefined, "Clay", "DAP", FALSE)}

InitSynthesis ==
    /\ isRunning = FALSE
    /\ interval = 0
    /\ timers = {}
    /\ startCalls = << >>
    /\ lastOp = "none"
    /\ synthLatest \in SeededRecords
    /\ synthCrop = ""
    /\ currentData = NoData
    /\ crop = NoCrop
    /\ history = EmptyHistory
    /\ hour = 0
    /\ recommendation = NotComputed
    /\ anomalies = << >>
    /\ waterSavings = NoSavings
    /\ yieldHealth = Undefined
    /\ pc = "request"
    /\ StoreIdle
    /\ ESP32Idle
    /\ AlertsIdle
    /\ TelegramIdle
    /\ MLIdle

NextSynthesis ==
    \/ Start
    \/ \E c \in DOMAIN startCalls : StartResumes(c)
    \/ Stop
    \/ IntervalFires
    \/ GenerateDirect

SpecSynthesis == InitSynthesis /\ [][NextSynthesis]_vars

----------------------------------------------------------------------------
(* Properties of DataSynthesisService *)

\* a start call begins in this step
StartBegins == Len(startCalls') = Len(startCalls) + 1

\* C25: start is idempotent: in any sequence of start and stop calls,
\* a start issued during an earlier start's initial generation included, at
\* most one interval timer exists at any time, and a start made while
\* isRunning is true returns without generating data or creating a timer.
C25_StartIdempotent ==
    /\ [](Cardinality(timers) <= 1)
    /\ [][/\ (StartBegins /\ isRunning) =>
                /\ startCalls'[Len(startCalls')] = "returned"
                /\ UNCHANGED <<timers, interval, synthLatest, isRunning>>
          /\ \A c \in DOMAIN startCalls :
                startCalls[c] = "returned" => startCalls'[c] = "returned"]_vars

\* a start that returned at once during the first start's initial
\* generation
C25_Witness ==
    /\ startCalls = <<"awaiting", "returned">>
    /\ timers = {}
    /\ isRunning

\* C26: after a stop that follows a start (also during the start's initial
\* generation) isRunning is false and no interval timer remains or is
\* created later by that start, and a later start starts the service again.
C26_StopStops ==
    /\ [](lastOp = "stop" => (~isRunning /\ timers = {}))
    /\ [][(lastOp = "stop" /\ lastOp' = "stop") => timers' \subseteq timers]_vars
    /\ [][(lastOp = "stop" /\ StartBegins) => startCalls'[Len(startCalls')] = "awaiting"]_vars

Synthesized == synthLatest.present /\ synthLatest.isSimulated

InRange(x, lo, hi) == IsNum(x) /\ x.v >= lo /\ x.v <= hi

----------------------------------------------------------------------------
(* MLPredictionService: predict and ruleBasedPrediction *)

\* Temperature, humidity and soil moisture are in tenths. A water amount in
\* L/m2 is scaled by AmountScale, the product of the denominators in
\* calculateWaterQuantity (deficit / 30, soil factor in tenths, temperature
\* factor in hundredths, humidity factor in tenths).
AmountScale == 300 * 10 * 100 * 10

\* a string property: "" stands for undefined
OrString(x, d) == IF x # "" THEN x ELSE d

cropWaterNeeds == [Rice |-> 50, Wheat |-> 35, Maize |-> 40, Tomato |-> 38, Sugarcane |-> 45]

\* soilType?.toLowerCase().includes(part)
soilIncludes(soilType, part) ==
    CASE part = "sandy" -> soilType \in {"Sandy", "Sandy Loam", "sandy loam"}
      [] part = "clay" -> soilType \in {"Clay", "clay", "Clay Loam"}

\* calculateWaterQuantity for idealMoistureRange {min: 30, max: 50}, as every
\* caller passes it; currentMoisture a number, temperature and humidity
\* values that may be undefined
calculateWaterQuantity(cropType, currentMoisture, soilType, temperature, humidity) ==
    LET base == IF cropType \in DOMAIN cropWaterNeeds THEN cropWaterNeeds[cropType] ELSE 35
        deficit == IF currentMoisture < 300 THEN 300 - currentMoisture ELSE 0
        soilFactor == IF soilIncludes(soilType, "sandy") THEN 12
                      ELSE IF soilIncludes(soilType, "clay") THEN 8 ELSE 10
        tempFactor == IF Gt(temperature, Num(300)) THEN 115
                      ELSE IF Lt(temperature, Num(200)) THEN 90 ELSE 100
        humidityFactor == IF Gt(humidity, Num(700)) THEN 7
                          ELSE IF Lt(humidity, Num(400)) THEN 11 ELSE 10
        waterNeeded == base * deficit * soilFactor * tempFactor * humidityFactor
    IN  IF waterNeeded > 100 * AmountScale THEN 100 * AmountScale
        ELSE IF waterNeeded < 0 THEN 0 ELSE waterNeeded

\* the predictions object
Predictions(irrigationStatus, waterAmount, healthStatus, status) ==
    [irrigation |-> [status |-> irrigationStatus, amount |-> waterAmount],
     health |-> [status |-> healthStatus],
     status |-> status, waterAmount |-> waterAmount, urgency |-> status]

\* ruleBasedPrediction(input).predictions; success is true
ruleBasedPrediction(input) ==
    LET dry == Lt(input.soil_moisture, Num(300))
        irrigationStatus ==
            IF Gt(input.humidity, Num(700)) THEN "no_water_needed"
            ELSE IF dry THEN "less"
            ELSE IF Gt(input.soil_moisture, Num(600)) THEN "too_much"
            ELSE "perfect"
        waterAmount ==
            IF irrigationStatus = "less"
            THEN calculateWaterQuantity(OrString(input.crop_type, "Wheat"),
                                        ToNumber(input.soil_moisture).v, input.soil_type,
                                        input.temperature, input.humidity)
            ELSE 0
        urgency0 ==
            IF irrigationStatus = "less"
            THEN (IF Lt(input.soil_moisture, Num(200)) THEN "critical" ELSE "caution")
            ELSE IF irrigationStatus = "too_much" THEN "caution" ELSE "normal"
        healthStatus ==
            IF input.image_health_status \in {"rotten", "unhealthy"} THEN "critical"
            ELSE IF input.image_health_status = "dry" THEN "caution" ELSE "normal"
        urgency ==
            IF healthStatus = "critical" THEN "critical"
            ELSE IF healthStatus = "caution" /\ urgency0 = "normal" THEN "caution"
            ELSE urgency0
    IN  Predictions(irrigationStatus, Num(waterAmount), healthStatus, urgency)

NoPredictions == Predictions("", Undefined, "", "")

\* what the ML API or Gemini answered: an object with the three keys at its
\* top level (any of them missing), the object ruleBasedPrediction returns
\* (its values under predictions), or null
FlatPrediction(irrigation_status, water_amount, health_status) ==
    [kind |-> "flat", irrigation_status |-> irrigation_status, water_amount |-> water_amount,
     health_status |-> health_status, predictions |-> NoPredictions]

WrappedPrediction(p) ==
    [kind |-> "wrapped", irrigation_status |-> "", water_amount |-> Undefined,
     health_status |-> "", predictions |-> p]

NullPrediction ==
    [kind |-> "null", irrigation_status |-> "", water_amount |-> Undefined,
     health_status |-> "", predictions |-> NoPredictions]

\* a property of the image analysis, "" when there is no analysis
ImageField(imageAnalysis, f) == IF imageAnalysis.present THEN imageAnalysis[f] ELSE ""

\* generateInsights, for an mlPrediction that is not null: the insights
\* that predict copies into its predictions
generateInsights(mlPrediction, input, imageAnalysis) ==
    LET cropType == OrString(ImageField(imageAnalysis, "cropType"),
                             OrString(input.crop_type, "Unknown"))
        diseaseDetected == imageAnalysis.present /\ imageAnalysis.diseaseDetected
        cropCondition == OrString(ImageField(imageAnalysis, "cropCondition"), "perfect")
        moistureLevel == OrString(ImageField(imageAnalysis, "moistureLevel"), "optimal")
        currentMoisture == OrDefault(input.soil_moisture, 400)
        irrigationStatus ==
            IF moistureLevel = "low" \/ currentMoisture < 300 THEN "less"
            ELSE IF moistureLevel = "high" \/ currentMoisture > 600 THEN "too_much"
            ELSE "perfect"
        conditionAssessment ==
            IF cropCondition = "bad" \/ diseaseDetected THEN "bad"
            ELSE IF cropCondition = "dry" \/ moistureLevel = "low" THEN "dry"
            ELSE "perfect"
        \* mlPrediction.water_amount || mlPrediction.waterAmount || 0
        mlWaterAmount == IF Truthy(mlPrediction.water_amount) THEN mlPrediction.water_amount
                         ELSE Num(0)
        \* mlPrediction.health_status || mlPrediction.health?.status || 'normal'
        mlHealthStatus == OrString(mlPrediction.health_status, "normal")
        finalIrrigationStatus == irrigationStatus
        finalWaterAmount ==
            IF mlWaterAmount.v > 0 THEN mlWaterAmount
            ELSE IF irrigationStatus = "less"
                 THEN Num(calculateWaterQuantity(cropType, currentMoisture, input.soil_type,
                                                 input.temperature, input.humidity))
            ELSE Num(0)
        overallStatus ==
            IF mlHealthStatus = "critical" \/ conditionAssessment = "bad"
               \/ finalIrrigationStatus = "less"
            THEN "critical"
            ELSE IF mlHealthStatus = "caution" \/ conditionAssessment = "dry"
                    \/ finalIrrigationStatus = "too_much"
            THEN "caution"
            ELSE "normal"
    IN  Predictions(finalIrrigationStatus, finalWaterAmount, mlHealthStatus, overallStatus)

\* the mlInput that predict builds from its arguments
MlInput(args) ==
    LET sensorData == args.sensorData
    IN  [temperature |-> Num(OrDefault(sensorData.temperature, 250)),
         humidity |-> Num(OrDefault(sensorData.humidity, 500)),
         soil_moisture |-> Num(OrDefault(sensorData.moisture, 400)),
         soil_type |-> OrString(sensorData.soilType, "Loamy"),
         crop_type |-> OrString(args.cropType, "Wheat"),
         image_health_status |->
             OrString(ImageField(args.imageAnalysis, "healthStatus"), "unknown")]

\* the input of the outer catch: {...sensorData, image_health_status,
\* crop_type}; the readings are under weather and soil, not at the top level
CatchInput(args) ==
    [temperature |-> Undefined, humidity |-> Undefined, soil_moisture |-> Undefined,
     soil_type |-> "", crop_type |-> args.cropType,
     image_health_status |->
         OrString(ImageField(args.imageAnalysis, "healthStatus"), "unknown")]

\* a call: pc its position, used the source of the prediction, computed
\* what that source computed, predictions what the call returned
MlCall(p, used, computed, success, predictions) ==
    [pc |-> p, used |-> used, computed |-> computed, success |-> success,
     predictions |-> predictions]

\* the three values as the source of the prediction computed them
Computed(mlPrediction) ==
    IF mlPrediction.kind = "wrapped"
    THEN [irrigation_status |-> mlPrediction.predictions.irrigation.status,
          water_amount |-> mlPrediction.predictions.waterAmount,
          health_status |-> mlPrediction.predictions.health.status]
    ELSE [irrigation_status |-> mlPrediction.irrigation_status,
          water_amount |-> mlPrediction.water_amount,
          health_status |-> mlPrediction.health_status]

\* predict from generateInsights on: a null mlPrediction makes
\* generateInsights throw, and the outer catch returns the rule-based
\* prediction of CatchInput
Returned(mlPrediction, used) ==
    IF mlPrediction.kind = "null"
    THEN MlCall("done", "catch", Computed(WrappedPrediction(ruleBasedPrediction(CatchInput(mlArgs)))),
                TRUE, ruleBasedPrediction(CatchInput(mlArgs)))
    ELSE MlCall("done", used, Computed(mlPrediction), TRUE,
                generateInsights(mlPrediction, MlInput(mlArgs), mlArgs.imageAnalysis))

NotCalled == MlCall("start", "none", Computed(NullPrediction), FALSE, NoPredictions)

\* answers of the ML API
MLResponses ==
    {FlatPrediction("less", Num(40 * AmountScale), "caution"),
     FlatPrediction("no_water_needed", Num(0), "normal"),
     FlatPrediction("less", Num(150 * AmountScale), "critical"),
     NullPrediction}

\* what parseGeminiPrediction makes of Gemini's answer: an object with
\* irrigation_status, one without, null
GeminiParsed ==
    {FlatPrediction("too_much", Num(0), "critical"),
     FlatPrediction("no_water_needed", Undefined, ""),
     FlatPrediction("", Num(25 * AmountScale), "caution"),
     NullPrediction}

\* predict up to the call of the ML API
Predict ==
    /\ mlResult.pc = "start"
    /\ mlResult' = [mlResult EXCEPT !.pc = "mlApi"]
    /\ UNCHANGED mlArgs
    /\ UNCHANGED <<engineVars, storeVars, espVars, alertVars, telegramVars, synthVars>>

MLApiResponds ==
    /\ mlResult.pc = "mlApi"
    /\ \E response \in MLResponses : mlResult' = Returned(response, "ml")
    /\ UNCHANGED mlArgs
    /\ UNCHANGED <<engineVars, storeVars, espVars, alertVars, telegramVars, synthVars>>

\* the ML API call fails: geminiBasedPrediction is called
MLApiFails ==
    /\ mlResult.pc = "mlApi"
    /\ mlResult' = [mlResult EXCEPT !.pc = "gemini"]
    /\ UNCHANGED mlArgs
    /\ UNCHANGED <<engineVars, storeVars, espVars, alertVars, telegramVars, synthVars>>

\* Gemini answers: the parsed object is returned when it has an
\* irrigation_status, the rule-based prediction otherwise
GeminiResponds ==
    /\ mlResult.pc = "gemini"
    /\ \E parsed \in GeminiParsed :
          mlResult' =
              IF parsed.kind = "null" \/ parsed.irrigation_status = ""
              THEN Returned(WrappedPrediction(ruleBasedPrediction(MlInput(mlArgs))), "rules")
              ELSE Returned(parsed, "gemini")
    /\ UNCHANGED mlArgs
    /\ UNCHANGED <<engineVars, storeVars, espVars, alertVars, telegramVars, synthVars>>

\* the Gemini call fails: the catch of geminiBasedPrediction
GeminiFails ==
    /\ mlResult.pc = "gemini"
    /\ mlResult' = Returned(WrappedPrediction(ruleBasedPrediction(MlInput(mlArgs))), "rules")
    /\ UNCHANGED mlArgs
    /\ UNCHANGED <<engineVars, storeVars, espVars, alertVars, telegramVars, synthVars>>

\* a direct call of ruleBasedPrediction on the same input
RuleBasedPrediction ==
    /\ mlResult.pc = "start"
    /\ mlResult' = MlCall("done", "direct",
                          Computed(WrappedPrediction(ruleBasedPrediction(MlInput(mlArgs)))),
                          TRUE, ruleBasedPrediction(MlInput(mlArgs)))
    /\ UNCHANGED mlArgs
    /\ UNCHANGED <<engineVars, storeVars, espVars, alertVars, telegramVars, synthVars>>

NoImage ==
    [present |-> FALSE, healthStatus |-> "", moistureLevel |-> "", cropCondition |-> "",
     diseaseDetected |-> FALSE, cropType |-> ""]

ImageAnalyses ==
    {NoImage,
     [NoImage EXCEPT !.present = TRUE, !.healthStatus = "rotten"],
     [NoImage EXCEPT !.present = TRUE, !.healthStatus = "dry", !.moistureLevel = "low",
                     !.cropCondition = "dry", !.cropType = "Rice"]}

\* sensor readings of the request body: temperature, humidity and moisture
\* in tenths, or missing
PredictSensorData ==
    {[temperature |-> t, humidity |-> h, moisture |-> m, soilType |-> st] :
        t \in {Num(320), Undefined}, h \in {Num(550), Num(800), Undefined},
        m \in {Num(150), Num(250), Num(450), Num(700), Undefined},
        st \in {"Sandy Loam", ""}}

InitPredict ==
    /\ mlArgs \in [sensorData : PredictSensorData, imageAnalysis : ImageAnalyses,
                   cropType : {"Rice", ""}]
    /\ mlResult = NotCalled
    /\ currentData = NoData
    /\ crop = NoCrop
    /\ history = EmptyHistory
    /\ hour = 0
    /\ recommendation = NotComputed
    /\ anomalies = << >>
    /\ waterSavings = NoSavings
    /\ yieldHealth = Undefined
    /\ pc = "request"
    /\ StoreIdle
    /\ ESP32Idle
    /\ AlertsIdle
    /\ TelegramIdle
    /\ SynthesisIdle

NextPredict ==
    \/ Predict
    \/ MLApiResponds
    \/ MLApiFails
    \/ GeminiResponds
    \/ GeminiFails
    \/ RuleBasedPrediction

SpecPredict == InitPredict /\ [][NextPredict]_vars

----------------------------------------------------------------------------
(* Properties of predict and ruleBasedPrediction *)

Done == mlResult.pc = "done"

\* the humidity of the input
HighHumidity == MlInput(mlArgs).humidity.v > 700

\* C28: for every input with humidity above 70 the irrigation status is
\* 'no_water_needed' and the water amount 0, from ruleBasedPrediction and
\* from predict, the two giving the same irrigation status for the same
\* input; otherwise the water amount is positive only with the status
\* 'less', and it never exceeds 100 L/m2.
C28_HighHumidityNoWater ==
    Done =>
        /\ HighHumidity =>
              /\ mlResult.predictions.irrigation.status = "no_water_needed"
              /\ mlResult.predictions.waterAmount = Num(0)
        /\ mlResult.predictions.irrigation.status
              = ruleBasedPrediction(MlInput(mlArgs)).irrigation.status
        /\ mlResult.predictions.waterAmount.v > 0 =>
              mlResult.predictions.irrigation.status = "less"
        /\ mlResult.predictions.waterAmount.v <= 100 * AmountScale

\* C29: predict always resolves with success = true and predictions: the
\* ML API failing it falls back to Gemini, that failing or not parsable to
\* the rules, and the irrigation status, water amount and health status
\* computed by the fallback used are the ones in the returned predictions.
C29_FallbackReported ==
    (Done /\ mlResult.used # "direct") =>
        /\ mlResult.success
        /\ mlResult.predictions # NoPredictions
        /\ mlResult.used \in {"gemini", "rules"} =>
              /\ mlResult.predictions.irrigation.status = mlResult.computed.irrigation_status
              /\ mlResult.predictions.waterAmount = mlResult.computed.water_amount
              /\ mlResult.predictions.health.status = mlResult.computed.health_status

----------------------------------------------------------------------------
(* MLPredictionService: getMarketRecommendations *)

\* pH, temperature, moisture and humidity are in tenths

MarketCrops == <<"Rice", "Wheat", "Maize", "Tomato", "Sugarcane", "Cotton", "Potato">>

Range(lo, hi) == [min |-> lo, max |-> hi]

Market(demand, phRange, tempRange, moistureRange) ==
    [demand |-> demand, phRange |-> phRange, tempRange |-> tempRange,
     moistureRange |-> moistureRange]

marketDemand ==
    [Rice |-> Market("high", Range(55, 70), Range(200, 350), Range(400, 700)),
     Wheat |-> Market("very_high", Range(60, 75), Range(150, 250), Range(300, 500)),
     Maize |-> Market("high", Range(58, 70), Range(180, 300), Range(350, 550)),
     Tomato |-> Market("very_high", Range(60, 70), Range(180, 280), Range(350, 600)),
     Sugarcane |-> Market("high", Range(60, 75), Range(200, 350), Range(450, 700)),
     Cotton |-> Market("high", Range(55, 80), Range(210, 300), Range(400, 650)),
     Potato |-> Market("very_high", Range(48, 55), Range(150, 250), Range(300, 500))]

demandScore == [very_high |-> 30, high |-> 20, medium |-> 10, low |-> 5]

Within(x, range) == x >= range.min /\ x <= range.max

\* calculateSuitability: the score and the two matches
calculateSuitability(c, soilData, weatherData, marketData) ==
    LET moisture == OrDefault(soilData.moisture, 400)
        temp == OrDefault(weatherData.temperature, 250)
        humidity == OrDefault(weatherData.humidity, 600)
        soilType == OrString(soilData.soilType, "Loamy")
        ph == OrDefault(soilData.ph, 65)
        phMatch == Within(ph, marketData.phRange)
        climateMatch == Within(temp, marketData.tempRange)
        soilMatch == \/ (c = "Rice" /\ soilType = "Clay")
                     \/ (c \in {"Wheat", "Maize"} /\ soilType \in {"Loamy", "Sandy Loam"})
        score == 40 + (IF phMatch THEN 20 ELSE 0) + (IF climateMatch THEN 20 ELSE 0)
                    + (IF Within(moisture, marketData.moistureRange) THEN 20 ELSE 0)
                    + (IF soilMatch THEN 10 ELSE 0)
                    + (IF humidity >= 500 /\ humidity <= 800 THEN 5 ELSE 0)
    IN  [score |-> IF score > 100 THEN 100 ELSE score,
         phMatch |-> phMatch, climateMatch |-> climateMatch]

\* variant: a score of 50 passes
isSuitable_AtLeast50(score) == score >= 50

\* suitability.score > 50
isSuitable(score) == score > 50

\* an entry of suitableCrops
Suitable(c, suitability) ==
    [crop |-> c, suitability |-> suitability.score, demand |-> marketDemand[c].demand,
     phMatch |-> suitability.phMatch, climateMatch |-> suitability.climateMatch]

\* the score the sort compares
sortScore(a) ==
    a.suitability + demandScore[a.demand] + (IF a.phMatch THEN 10 ELSE 0)
        + (IF a.climateMatch THEN 10 ELSE 0)

\* sort((a, b) => bScore - aScore): descending, equal scores keeping their order
SortByScoreDesc(seq) ==
    LET n == Len(seq)
        before(j) == Cardinality({i \in 1..n :
                        \/ sortScore(seq[i]) > sortScore(seq[j])
                        \/ (sortScore(seq[i]) = sortScore(seq[j]) /\ i < j)})
    IN  [k \in 1..n |-> seq[CHOOSE j \in 1..n : before(j) = k - 1]]

getMarketRecommendations(soilData, weatherData) ==
    LET entries == [i \in 1..Len(MarketCrops) |->
                       Suitable(MarketCrops[i],
                                calculateSuitability(MarketCrops[i], soilData, weatherData,
                                                     marketDemand[MarketCrops[i]]))]
        pushed(e) == isSuitable(e.suitability)
        suitableCrops == SortByScoreDesc(SelectSeq(entries, pushed))
    IN  Limit(suitableCrops, 5)

\* soil and weather of a request: values in and out of the crops' ranges,
\* and missing values
MarketSoils ==
    {[ph |-> ph, moisture |-> m, soilType |-> st] :
        ph \in {Num(65), Num(55), Num(90), Undefined},
        m \in {Num(450), Num(320), Num(800), Undefined},
        st \in {"Loamy", "Clay", "Sandy", ""}}

MarketWeathers ==
    {[temperature |-> t, humidity |-> h] :
        t \in {Num(250), Num(330), Num(100), Undefined}, h \in {Num(600), Num(900)}}

MarketNotCalled == [pc |-> "start", list |-> << >>]

InitMarket ==
    /\ mlArgs \in [soilData : MarketSoils, weatherData : MarketWeathers]
    /\ mlResult = MarketNotCalled
    /\ currentData = NoData
    /\ crop = NoCrop
    /\ history = EmptyHistory
    /\ hour = 0
    /\ recommendation = NotComputed
    /\ anomalies = << >>
    /\ waterSavings = NoSavings
    /\ yieldHealth = Undefined
    /\ pc = "request"
    /\ StoreIdle
    /\ ESP32Idle
    /\ AlertsIdle
    /\ TelegramIdle
    /\ SynthesisIdle

GetMarketRecommendations ==
    /\ mlResult.pc = "start"
    /\ mlResult' = [pc |-> "done",
                    list |-> getMarketRecommendations(mlArgs.soilData, mlArgs.weatherData)]
    /\ UNCHANGED mlArgs
    /\ UNCHANGED <<engineVars, storeVars, espVars, alertVars, telegramVars, synthVars>>

NextMarket == GetMarketRecommendations

SpecMarket == InitMarket /\ [][NextMarket]_vars

----------------------------------------------------------------------------
(* Properties of getMarketRecommendations *)

Listed == {mlResult.list[i].crop : i \in DOMAIN mlResult.list}

\* suitability and combined score of a crop for the arguments of the call
SuitabilityOf(c) ==
    calculateSuitability(c, mlArgs.soilData, mlArgs.weatherData, marketDemand[c])

CombinedOf(c) ==
    SuitabilityOf(c).score + demandScore[marketDemand[c].demand]
        + (IF SuitabilityOf(c).phMatch THEN 10 ELSE 0)
        + (IF SuitabilityOf(c).climateMatch THEN 10 ELSE 0)

\* C30: getMarketRecommendations returns at most 5 crops, each with a
\* suitability in (50, 100], none twice, the combined score (suitability +
\* demand bonus + 10 per pH match + 10 per climate match) never increasing
\* along the list; a crop left out has a suitability of at most 50 or a
\* combined score not greater than that of every listed crop.
C30_TopFiveByCombinedScore ==
    mlResult.pc = "done" =>
        LET list == mlResult.list
        IN  /\ Len(list) <= 5
            /\ \A i \in DOMAIN list :
                  /\ list[i].suitability > 50 /\ list[i].suitability <= 100
                  /\ list[i].suitability = SuitabilityOf(list[i].crop).score
            /\ \A i, j \in DOMAIN list : i # j => list[i].crop # list[j].crop
            /\ \A i, j \in DOMAIN list :
                  i < j => CombinedOf(list[i].crop) >= CombinedOf(list[j].crop)
            /\ \A k \in DOMAIN MarketCrops :
                  MarketCrops[k] \notin Listed =>
                      \/ SuitabilityOf(MarketCrops[k]).score <= 50
                      \/ \A c \in Listed : CombinedOf(MarketCrops[k]) <= CombinedOf(c)

\* five crops listed and a sixth with a suitability above 50 left out
C30_Witness ==
    /\ mlResult.pc = "done"
    /\ Len(mlResult.list) = 5
    /\ \E k \in DOMAIN MarketCrops :
          MarketCrops[k] \notin Listed /\ SuitabilityOf(MarketCrops[k]).score > 50
    /\ \E i \in DOMAIN mlResult.list : mlResult.list[i].suitability = 100

====
